---- MODULE Spec2Model ----
(***************************************************************************)
(* CurationGym: the resumable local executor, exact deduplication, n-gram  *)
(* decontamination, the slice sampler, the policy execution loop and the   *)
(* artifact store, modelled as state machines.  Each subsystem has its own *)
(* specification (Spec, SpecDedup, SpecDecontam, SpecSampler, SpecPolicy,  *)
(* SpecStore) over its own variables; the variables of the other           *)
(* subsystems stay at their initial values.                                *)
(***************************************************************************)
EXTENDS Integers, Sequences, FiniteSets, TLC

\* ------------------------------------------------------------------------
\* Bounds
\* ------------------------------------------------------------------------
NumShards == 2
DocsPerShard == 1
MaxCalls == 2

\* ------------------------------------------------------------------------
\* Generic helpers
\* ------------------------------------------------------------------------
Range(s) == {s[i] : i \in 1..Len(s)}

RECURSIVE SeqOfSet(_)
SeqOfSet(S) ==
    IF S = {} THEN <<>>
    ELSE LET m == CHOOSE x \in S : \A y \in S : x <= y
         IN <<m>> \o SeqOfSet(S \ {m})

RECURSIVE FilterSeq(_, _)
FilterSeq(s, keep) ==
    IF s = <<>> THEN <<>>
    ELSE IF Head(s) \in keep THEN <<Head(s)>> \o FilterSeq(Tail(s), keep)
    ELSE FilterSeq(Tail(s), keep)

\* ========================================================================
\* State
\* ========================================================================
\* the local executor (pipeline/executors/local.py)
VARIABLES
    pc,           \* position of the executor's main process
    mem,          \* the in-memory ExecutionState of the running call
    disk,         \* execution_state.json
    files,        \* shard_<task_id>.jsonl, per task
    pending,      \* the list `pending` computed by execute
    idx,          \* position of the sequential for loop in `pending`
    worker,       \* per task: progress of the task body in this call
    saveRet,      \* where the main process continues after state.save
    run_id,       \* argument of the current execute call
    num_workers,  \* LocalExecutor.num_workers of the current call
    calls,        \* number of execute calls made so far
    runs,         \* history: how often pipeline.run was started per task
    raised,       \* history: some shard task raised an exception
    lastDisk      \* history: the last complete content of execution_state.json

execVars == <<pc, mem, disk, files, pending, idx, worker, saveRet,
              run_id, num_workers, calls, runs, raised, lastDisk>>

\* exact dedup (operators/dedup/exact_doc.py)
VARIABLES
    dd_normalize, \* ExactDedup.normalize
    dd_seen,      \* ExactDedup._seen: hash -> id of the first document
    dd_docs,      \* the documents that went through process, with metadata
    dd_out        \* the ids of the documents process yielded, in order

dedupVars == <<dd_normalize, dd_seen, dd_docs, dd_out>>

\* n-gram decontamination (operators/decontam/ngram_overlap.py)
VARIABLES
    dc_mode,      \* NgramDecontaminator.mode
    dc_threshold, \* overlap_threshold, as a fraction <<numerator, denominator>>
    dc_eval,      \* _eval_ngrams: source -> set of n-gram hashes
    dc_first,     \* _ngram_to_source: hash -> first source
    dc_stats,     \* DecontamStats
    dc_docs,      \* the documents that went through process, with their result
    dc_out,       \* the documents process returned (process_stream yielded)
    dc_calls,     \* number of add_eval_data calls so far
    dc_words      \* history: number of words passed to the calls so far

decontamVars == <<dc_mode, dc_threshold, dc_eval, dc_first, dc_stats, dc_docs, dc_out,
                  dc_calls, dc_words>>

\* the slice sampler (mixing/sampler.py)
VARIABLES
    sp_caps,      \* SamplingConfig.max_tokens_per_slice: tag -> cap
    sp_tokens,    \* SliceSampler._slice_tokens
    sp_docs,      \* SliceSampler._slice_docs: tag -> ids of the bucket's documents
    sp_in         \* the documents passed to add_document, with the result

samplerVars == <<sp_caps, sp_tokens, sp_docs, sp_in>>

\* the policy execution loop (policy/execute.py)
VARIABLES
    pl_policy,    \* the Policy: max_tokens, max_tokens_per_slice, dedup scope, decontam
    pl_pc,        \* "loop": in the for loop; "finish": after it; "done": returned
    pl_dedupers,  \* ScopedDedup: deduper key ("global" or a dump) -> _seen
    pl_tokens,    \* the sampler's _slice_tokens
    pl_buckets,   \* the sampler's _slice_docs
    pl_stats,     \* SliceStatsCollector: total and per-slice counters
    pl_total,     \* total_tokens
    pl_buffer,    \* shard_docs
    pl_shards,    \* shards: the {path, doc_count} entries
    pl_files,     \* the shard files written: path (shard index) -> lines
    pl_manifest,  \* manifest.json
    pl_in         \* history: the input documents consumed, with their outcome

policyVars == <<pl_policy, pl_pc, pl_dedupers, pl_tokens, pl_buckets, pl_stats,
                pl_total, pl_buffer, pl_shards, pl_files, pl_manifest, pl_in>>

\* the artifact store (store/artifact_store.py)
VARIABLES
    st_dirs,     \* the artifact directories that exist under base_path
    st_files,    \* artifact hash -> the manifest.json of that directory
    st_writer,   \* the process in save_manifest: its position and arguments
    st_saves,    \* history: number of save_manifest calls started
    st_reader,   \* the process in exists / get_manifest: its position
    st_obs       \* history: what the reader's calls returned

storeVars == <<st_dirs, st_files, st_writer, st_saves, st_reader, st_obs>>

\* the executor under a pipeline with cross-shard state (pipeline/executors/local.py)
VARIABLES
    sf_shards,    \* the input shards: per task the texts of its documents
    sq_idx,       \* num_workers = 1: position of the for loop over the tasks
    sq_seen,      \* num_workers = 1: _seen of the pipeline's global deduper
    sq_files,     \* num_workers = 1: the shard files
    sq_tasks,     \* num_workers = 1: state.tasks
    pr_pc,        \* num_workers > 1: position of _execute_parallel
    pr_copy,      \* num_workers > 1: per task, _seen of the pickled pipeline copy
    pr_future,    \* num_workers > 1: per task, state of its future
    pr_files,     \* num_workers > 1: the shard files
    pr_tasks      \* num_workers > 1: state.tasks

statefulVars == <<sf_shards, sq_idx, sq_seen, sq_files, sq_tasks,
                  pr_pc, pr_copy, pr_future, pr_files, pr_tasks>>

\* scoped dedup (operators/dedup/scope.py)
VARIABLES
    sc_scope,     \* ScopedDedup.scope
    sc_dedupers,  \* deduper key ("global" or a dump) -> _seen of that ExactDedup
    sc_docs,      \* history: the documents processed, with the metadata set
    sc_out        \* the ids of the documents yielded

scopedVars == <<sc_scope, sc_dedupers, sc_docs, sc_out>>

\* MinHash
VARIABLES
    mh_buckets,       \* MinHashDedup._buckets: band -> bucket key -> doc ids
    mh_doc_clusters,  \* MinHashDedup._doc_clusters: doc id -> cluster id
    mh_cluster_docs,  \* MinHashDedup._cluster_docs: cluster id -> doc ids
    mh_docs,          \* history: the documents processed, with the metadata set
    mh_out            \* the ids of the documents yielded

minhashVars == <<mh_buckets, mh_doc_clusters, mh_cluster_docs, mh_docs, mh_out>>

\* Slice statistics
VARIABLES
    ss_stats,  \* SliceStatsCollector: [total |-> _total, by_slice |-> _stats]
    ss_docs    \* history: the documents passed to add_document

statsVars == <<ss_stats, ss_docs>>

\* Graceful shutdown
VARIABLES
    gs_requested,  \* GracefulShutdown._shutdown_requested
    gs_callbacks,  \* GracefulShutdown._callbacks: how many flush callbacks are registered
    gs_flushes,    \* history: callback runs started by the first signal
    gs_exit_runs,  \* history: callback runs during a forced exit
    gs_pc,         \* execute_policy: "loop", "done", or "exited" (SystemExit)
    gs_in,         \* documents taken from input_docs
    gs_buffer,     \* len(shard_docs)
    gs_shards,     \* shard files written
    gs_manifest,   \* manifest.json written
    gs_after       \* history: documents appended to a shard after the flag was set

shutdownVars == <<gs_requested, gs_callbacks, gs_flushes, gs_exit_runs, gs_pc,
                  gs_in, gs_buffer, gs_shards, gs_manifest, gs_after>>

\* Policy hashing
VARIABLES
    ph_calls  \* history: the calls of compute_policy_hash, [policy, hash]

policyHashVars == <<ph_calls>>

\* Artifact hashing
VARIABLES
    ah_git,   \* environment: what `git rev-parse HEAD` answers in the working directory
    ah_calls  \* history: the hash calls, [fn, policy, code_version, input_signature, git, hash]

artifactHashVars == <<ah_git, ah_calls>>

\* execute_policy called twice
VARIABLES
    rr_policy,  \* the policy passed to both calls of execute_policy
    rr_input,   \* the input Document objects, shared by both calls
    rr_run,     \* which call of execute_policy is running: 1 or 2
    rr_pc,      \* execute_policy: "loop", "finish", "done"
    rr_pos,     \* input documents consumed by the running call
    rr_ops,     \* the operators and counters of the running call
    rr_first    \* what the first call wrote: [done, files, stats]

rerunVars == <<rr_policy, rr_input, rr_run, rr_pc, rr_pos, rr_ops, rr_first>>

\* Manifest round trip
VARIABLES
    mf_file,    \* the text of manifest.json, "absent" before the first save
    mf_saved,   \* history: the manifest object of the last save
    mf_loaded,  \* the result of the last load: [done, manifest]
    mf_saves    \* history: the number of saves

manifestVars == <<mf_file, mf_saved, mf_loaded, mf_saves>>

\* A document through the operators
VARIABLES
    ch_indexed, \* evaluation data was added to the decontaminator
    ch_mode,    \* the decontamination mode
    ch_in,      \* the input document being processed
    ch_doc,     \* the Document object the variable `doc` is bound to
    ch_pc,      \* the operator to run next
    ch_seen,    \* the deduper's _seen
    ch_out,     \* the documents emitted so far
    ch_count    \* history: the number of input documents taken

chainVars == <<ch_indexed, ch_mode, ch_in, ch_doc, ch_pc, ch_seen, ch_out, ch_count>>

\* Pipeline and operator configuration
VARIABLES
    cf_config,  \* the configuration dict given to PipelineBuilder.from_dict
    cf_env,     \* the external resources: [fasttext, model_file, reachable, blocklist_file]
    cf_pc,      \* "start", "validated", "built", "ready", "streaming", "error"
    cf_error,   \* [raised, at, what]: the exception raised, and in which phase
    cf_model,   \* LanguageFilter._model is loaded
    cf_blocklist, \* URLFilter.blocklist holds the domains of the file
    cf_docs     \* history: the number of documents streamed

configVars == <<cf_config, cf_env, cf_pc, cf_error, cf_model, cf_blocklist, cf_docs>>

\* SliceSampler.sample_stream
VARIABLES
    ss_caps,    \* config.max_tokens_per_slice
    ss_target,  \* target_tokens
    ss_tokens,  \* _slice_tokens
    ss_total,   \* total_tokens of sample_stream
    ss_pc,      \* "loop", "yielded" (suspended at the yield), "done"
    ss_in       \* history: the input documents read, with `yielded`

streamVars == <<ss_caps, ss_target, ss_tokens, ss_total, ss_pc, ss_in>>

\* Order of the written documents
VARIABLES
    od_pipeline, \* DataTroveAdapter._blocks, by block name
    od_shards,   \* input_shards: for each task id the documents of its shard
    od_files,    \* shard_<i>.jsonl of the executor: [exists, lines]
    od_pos,      \* execute_policy: the number of input documents consumed
    od_buffer,   \* execute_policy: shard_docs
    od_written,  \* execute_policy: the shard files, in the order written
    od_pc        \* execute_policy: "loop", "done"

orderVars == <<od_pipeline, od_shards, od_files, od_pos, od_buffer, od_written, od_pc>>

\* Document totals of execute_policy
VARIABLES
    tt_in,       \* history: the input documents consumed, [outcome, marked]
    tt_total,    \* stats_collector.total_stats
    tt_buffer,   \* shard_docs, by input position
    tt_shards,   \* shards: the entries write_shard returned
    tt_files,    \* the shard files written
    tt_manifest, \* the manifest written at the end
    tt_pc        \* "loop", "finish", "done"

totalsVars == <<tt_in, tt_total, tt_buffer, tt_shards, tt_files, tt_manifest, tt_pc>>

vars == <<execVars, dedupVars, decontamVars, samplerVars, policyVars,
    storeVars, statefulVars, scopedVars, minhashVars, statsVars, shutdownVars,
    policyHashVars, artifactHashVars, rerunVars, manifestVars, chainVars,
    configVars, streamVars, orderVars, totalsVars>>

\* the variables an action of one component leaves alone
nonExecVars == <<dedupVars, decontamVars, samplerVars, policyVars, storeVars,
    statefulVars, scopedVars, minhashVars, statsVars, shutdownVars,
    policyHashVars, artifactHashVars, rerunVars, manifestVars, chainVars,
    configVars, streamVars, orderVars, totalsVars>>
nonDedupVars == <<execVars, decontamVars, samplerVars, policyVars, storeVars,
    statefulVars, scopedVars, minhashVars, statsVars, shutdownVars,
    policyHashVars, artifactHashVars, rerunVars, manifestVars, chainVars,
    configVars, streamVars, orderVars, totalsVars>>
nonDecontamVars == <<execVars, dedupVars, samplerVars, policyVars, storeVars,
    statefulVars, scopedVars, minhashVars, statsVars, shutdownVars,
    policyHashVars, artifactHashVars, rerunVars, manifestVars, chainVars,
    configVars, streamVars, orderVars, totalsVars>>
nonSamplerVars == <<execVars, dedupVars, decontamVars, policyVars, storeVars,
    statefulVars, scopedVars, minhashVars, statsVars, shutdownVars,
    policyHashVars, artifactHashVars, rerunVars, manifestVars, chainVars,
    configVars, streamVars, orderVars, totalsVars>>
nonPolicyVars == <<execVars, dedupVars, decontamVars, samplerVars, storeVars,
    statefulVars, scopedVars, minhashVars, statsVars, shutdownVars,
    policyHashVars, artifactHashVars, rerunVars, manifestVars, chainVars,
    configVars, streamVars, orderVars, totalsVars>>
nonStoreVars == <<execVars, dedupVars, decontamVars, samplerVars, policyVars,
    statefulVars, scopedVars, minhashVars, statsVars, shutdownVars,
    policyHashVars, artifactHashVars, rerunVars, manifestVars, chainVars,
    configVars, streamVars, orderVars, totalsVars>>
nonStatefulVars == <<execVars, dedupVars, decontamVars, samplerVars,
    policyVars, storeVars, scopedVars, minhashVars, statsVars, shutdownVars,
    policyHashVars, artifactHashVars, rerunVars, manifestVars, chainVars,
    configVars, streamVars, orderVars, totalsVars>>
nonScopedVars == <<execVars, dedupVars, decontamVars, samplerVars, policyVars,
    storeVars, statefulVars, minhashVars, statsVars, shutdownVars,
    policyHashVars, artifactHashVars, rerunVars, manifestVars, chainVars,
    configVars, streamVars, orderVars, totalsVars>>
nonMinhashVars == <<execVars, dedupVars, decontamVars, samplerVars,
    policyVars, storeVars, statefulVars, scopedVars, statsVars, shutdownVars,
    policyHashVars, artifactHashVars, rerunVars, manifestVars, chainVars,
    configVars, streamVars, orderVars, totalsVars>>
nonStatsVars == <<execVars, dedupVars, decontamVars, samplerVars, policyVars,
    storeVars, statefulVars, scopedVars, minhashVars, shutdownVars,
    policyHashVars, artifactHashVars, rerunVars, manifestVars, chainVars,
    configVars, streamVars, orderVars, totalsVars>>
nonShutdownVars == <<execVars, dedupVars, decontamVars, samplerVars,
    policyVars, storeVars, statefulVars, scopedVars, minhashVars, statsVars,
    policyHashVars, artifactHashVars, rerunVars, manifestVars, chainVars,
    configVars, streamVars, orderVars, totalsVars>>
nonPolicyHashVars == <<execVars, dedupVars, decontamVars, samplerVars,
    policyVars, storeVars, statefulVars, scopedVars, minhashVars, statsVars,
    shutdownVars, artifactHashVars, rerunVars, manifestVars, chainVars,
    configVars, streamVars, orderVars, totalsVars>>
nonArtifactHashVars == <<execVars, dedupVars, decontamVars, samplerVars,
    policyVars, storeVars, statefulVars, scopedVars, minhashVars, statsVars,
    shutdownVars, policyHashVars, rerunVars, manifestVars, chainVars,
    configVars, streamVars, orderVars, totalsVars>>
nonRerunVars == <<execVars, dedupVars, decontamVars, samplerVars, policyVars,
    storeVars, statefulVars, scopedVars, minhashVars, statsVars, shutdownVars,
    policyHashVars, artifactHashVars, manifestVars, chainVars, configVars,
    streamVars, orderVars, totalsVars>>
nonManifestVars == <<execVars, dedupVars, decontamVars, samplerVars,
    policyVars, storeVars, statefulVars, scopedVars, minhashVars, statsVars,
    shutdownVars, policyHashVars, artifactHashVars, rerunVars, chainVars,
    configVars, streamVars, orderVars, totalsVars>>
nonChainVars == <<execVars, dedupVars, decontamVars, samplerVars, policyVars,
    storeVars, statefulVars, scopedVars, minhashVars, statsVars, shutdownVars,
    policyHashVars, artifactHashVars, rerunVars, manifestVars, configVars,
    streamVars, orderVars, totalsVars>>
nonConfigVars == <<execVars, dedupVars, decontamVars, samplerVars, policyVars,
    storeVars, statefulVars, scopedVars, minhashVars, statsVars, shutdownVars,
    policyHashVars, artifactHashVars, rerunVars, manifestVars, chainVars,
    streamVars, orderVars, totalsVars>>
nonStreamVars == <<execVars, dedupVars, decontamVars, samplerVars, policyVars,
    storeVars, statefulVars, scopedVars, minhashVars, statsVars, shutdownVars,
    policyHashVars, artifactHashVars, rerunVars, manifestVars, chainVars,
    configVars, orderVars, totalsVars>>
nonOrderVars == <<execVars, dedupVars, decontamVars, samplerVars, policyVars,
    storeVars, statefulVars, scopedVars, minhashVars, statsVars, shutdownVars,
    policyHashVars, artifactHashVars, rerunVars, manifestVars, chainVars,
    configVars, streamVars, totalsVars>>
nonTotalsVars == <<execVars, dedupVars, decontamVars, samplerVars, policyVars,
    storeVars, statefulVars, scopedVars, minhashVars, statsVars, shutdownVars,
    policyHashVars, artifactHashVars, rerunVars, manifestVars, chainVars,
    configVars, streamVars, orderVars>>

\* ========================================================================
\* Resumable executor (pipeline/executors/local.py)
\* ========================================================================
Tasks == 0..(NumShards - 1)
RunIds == {"r1", "r2"}
WorkerCounts == {1, 2}
ErrStr == "err"

\* TaskStatus dataclass defaults
TaskStatus == [status |-> "pending", docs_processed |-> 0, error |-> "none"]

NoTasks == [t \in Tasks |-> TaskStatus]
NoMem == [kind |-> "none", run_id |-> "none", total_tasks |-> 0, tasks |-> NoTasks]
AbsentFile == [kind |-> "absent", run_id |-> "none", total_tasks |-> 0, tasks |-> NoTasks]
\* a state file that was truncated by open(path, "w") and not yet (fully) written
PartialFile == [kind |-> "partial", run_id |-> "none", total_tasks |-> 0, tasks |-> NoTasks]

\* ExecutionState.save: the JSON document written to the file
StateToJson(st) ==
    [kind |-> "complete", run_id |-> st.run_id, total_tasks |-> st.total_tasks,
     tasks |-> [t \in Tasks |-> [status |-> st.tasks[t].status,
                                 docs_processed |-> st.tasks[t].docs_processed,
                                 error |-> st.tasks[t].error]]]

\* ExecutionState.load: the state rebuilt from a complete JSON document
JsonToState(f) ==
    [kind |-> "state", run_id |-> f.run_id, total_tasks |-> f.total_tasks,
     tasks |-> [t \in Tasks |-> [status |-> f.tasks[t].status,
                                 docs_processed |-> f.tasks[t].docs_processed,
                                 error |-> f.tasks[t].error]]]

\* LocalExecutor._create_state (before its save)
FreshState(r) ==
    [kind |-> "state", run_id |-> r, total_tasks |-> NumShards, tasks |-> NoTasks]

\* input_shards[task_id](): the documents of an input shard, by id
InputShard(t) == [k \in 1..DocsPerShard |-> t * DocsPerShard + k]

\* the pipeline's filter block keeps these documents
FilterKeeps == {d \in 1..(NumShards * DocsPerShard) : d % 3 # 2}

\* DataTroveAdapter.run on one shard
PipelineRun(docs) == FilterSeq(docs, FilterKeeps)

TaskOutput(t) == PipelineRun(InputShard(t))

NoShardFile == [exists |-> FALSE, lines |-> <<>>]

\* mutant: completed tasks are picked up again
IncompleteStatuses_rerun == {"pending", "failed", "completed"}

\* mutant: failed tasks are not retried
IncompleteStatuses_noretry == {"pending"}

\* execute: the statuses that make a task part of `pending`
IncompleteStatuses == {"pending", "failed"}

\* execute: pending = [i for i, t in state.tasks.items() if t.status in (...)]
PendingTasks(st) ==
    SeqOfSet({t \in Tasks : st.tasks[t].status \in IncompleteStatuses})

SetStatus(st, t, s) == [st EXCEPT !.tasks[t].status = s]

\* the try/except around a task body: the state after the task ended
TaskEnded(st, t, w) ==
    IF w = "done"
    THEN [st EXCEPT !.tasks[t].status = "completed",
                    !.tasks[t].docs_processed = Len(TaskOutput(t))]
    ELSE [st EXCEPT !.tasks[t].status = "failed",
                    !.tasks[t].error = ErrStr]

Live == pc \notin {"idle", "returned", "load_error"}

InitExec ==
    /\ pc = "idle"
    /\ mem = NoMem
    /\ disk = AbsentFile
    /\ files = [t \in Tasks |-> NoShardFile]
    /\ pending = <<>>
    /\ idx = 1
    /\ worker = [t \in Tasks |-> "none"]
    /\ saveRet = "none"
    /\ run_id = "none"
    /\ num_workers = 1
    /\ calls = 0
    /\ runs = [t \in Tasks |-> 0]
    /\ raised = FALSE
    /\ lastDisk = AbsentFile

\* execute, lines 76-81: load the state or create a fresh one
ExecuteStart(r, w) ==
    /\ ~Live
    /\ calls < MaxCalls
    /\ calls' = calls + 1
    /\ run_id' = r
    /\ num_workers' = w
    /\ pending' = <<>>
    /\ idx' = 1
    /\ worker' = [t \in Tasks |-> "none"]
    /\ IF disk.kind = "partial"
       THEN \* json.loads raises: execute ends with the exception
            /\ pc' = "load_error"
            /\ mem' = NoMem
            /\ saveRet' = "none"
       ELSE IF disk.kind = "complete" /\ disk.run_id = r
       THEN /\ mem' = JsonToState(disk)
            /\ pc' = "dispatch"
            /\ saveRet' = "none"
       ELSE /\ mem' = FreshState(r)
            /\ pc' = "save_open"
            /\ saveRet' = "dispatch"
    /\ UNCHANGED <<lastDisk, disk, files, runs, raised>>
    /\ UNCHANGED nonExecVars

\* execute, lines 84-96
Dispatch ==
    /\ pc = "dispatch"
    /\ pending' = PendingTasks(mem)
    /\ idx' = 1
    /\ pc' = IF pending' = <<>> THEN "returned"
             ELSE IF num_workers = 1 THEN "seq_loop" ELSE "par_submit"
    /\ UNCHANGED <<lastDisk, mem, disk, files, worker, saveRet, run_id, num_workers,
                   calls, runs, raised>>
    /\ UNCHANGED nonExecVars

\* ExecutionState.save, first half: write_text opens and truncates the file
SaveOpen ==
    /\ pc = "save_open"
    /\ disk' = PartialFile
    /\ pc' = "save_write"
    /\ UNCHANGED <<lastDisk, mem, files, pending, idx, worker, saveRet, run_id,
                   num_workers, calls, runs, raised>>
    /\ UNCHANGED nonExecVars

\* ExecutionState.save, second half: the JSON text is written and the file closed
SaveWrite ==
    /\ pc = "save_write"
    /\ disk' = StateToJson(mem)
    /\ lastDisk' = disk'
    /\ pc' = saveRet
    /\ saveRet' = "none"
    /\ UNCHANGED <<mem, files, pending, idx, worker, run_id, num_workers,
                   calls, runs, raised>>
    /\ UNCHANGED nonExecVars

\* _execute_sequential, lines 116-118
SeqMark ==
    /\ pc = "seq_loop"
    /\ idx <= Len(pending)
    /\ mem' = SetStatus(mem, pending[idx], "running")
    /\ pc' = "save_open"
    /\ saveRet' = "seq_run"
    /\ UNCHANGED <<lastDisk, disk, files, pending, idx, worker, run_id, num_workers,
                   calls, runs, raised>>
    /\ UNCHANGED nonExecVars

\* _execute_sequential, line 120: the task body starts in the main process
SeqStart ==
    /\ pc = "seq_run"
    /\ worker' = [worker EXCEPT ![pending[idx]] = "running"]
    /\ pc' = "seq_wait"
    /\ UNCHANGED <<lastDisk, mem, disk, files, pending, idx, saveRet, run_id,
                   num_workers, calls, runs, raised>>
    /\ UNCHANGED nonExecVars

\* _execute_sequential, lines 123-129
SeqCollect ==
    /\ pc = "seq_wait"
    /\ worker[pending[idx]] \in {"done", "raised"}
    /\ mem' = TaskEnded(mem, pending[idx], worker[pending[idx]])
    /\ worker' = [worker EXCEPT ![pending[idx]] =
                     IF worker[pending[idx]] = "done" THEN "ok" ELSE "err"]
    /\ idx' = idx + 1
    /\ pc' = "save_open"
    /\ saveRet' = "seq_loop"
    /\ UNCHANGED <<lastDisk, disk, files, pending, run_id, num_workers, calls, runs, raised>>
    /\ UNCHANGED nonExecVars

\* _execute_sequential: the for loop is exhausted, execute returns state
SeqReturn ==
    /\ pc = "seq_loop"
    /\ idx > Len(pending)
    /\ pc' = "returned"
    /\ UNCHANGED <<lastDisk, mem, disk, files, pending, idx, worker, saveRet, run_id,
                   num_workers, calls, runs, raised>>
    /\ UNCHANGED nonExecVars

\* _execute_parallel, lines 141-148: mark and submit every task, then save once
ParSubmit ==
    /\ pc = "par_submit"
    /\ mem' = [mem EXCEPT !.tasks = [t \in Tasks |->
                  IF t \in Range(pending)
                  THEN [mem.tasks[t] EXCEPT !.status = "running"]
                  ELSE mem.tasks[t]]]
    /\ worker' = [t \in Tasks |-> IF t \in Range(pending) THEN "queued" ELSE "none"]
    /\ pc' = "save_open"
    /\ saveRet' = "par_collect"
    /\ UNCHANGED <<lastDisk, disk, files, pending, idx, run_id, num_workers, calls,
                   runs, raised>>
    /\ UNCHANGED nonExecVars

\* ProcessPoolExecutor(max_workers=num_workers): a free worker takes a task
WorkerStart(t) ==
    /\ worker[t] = "queued"
    /\ Cardinality({u \in Tasks : worker[u] \in {"running", "writing"}}) < num_workers
    /\ worker' = [worker EXCEPT ![t] = "running"]
    /\ UNCHANGED <<lastDisk, pc, mem, disk, files, pending, idx, saveRet, run_id,
                   num_workers, calls, runs, raised>>
    /\ UNCHANGED nonExecVars

\* docs = list(pipeline.run(input())) succeeds; _write_output opens the shard file
TaskRun(t) ==
    /\ worker[t] = "running"
    /\ runs' = [runs EXCEPT ![t] = @ + 1]
    /\ worker' = [worker EXCEPT ![t] = "writing"]
    /\ files' = [files EXCEPT ![t] = [exists |-> TRUE, lines |-> <<>>]]
    /\ UNCHANGED <<lastDisk, pc, mem, disk, pending, idx, saveRet, run_id, num_workers,
                   calls, raised>>
    /\ UNCHANGED nonExecVars

\* docs = list(pipeline.run(input())) raises
TaskRunRaise(t) ==
    /\ worker[t] = "running"
    /\ runs' = [runs EXCEPT ![t] = @ + 1]
    /\ worker' = [worker EXCEPT ![t] = "raised"]
    /\ raised' = TRUE
    /\ UNCHANGED <<lastDisk, pc, mem, disk, files, pending, idx, saveRet, run_id,
                   num_workers, calls>>
    /\ UNCHANGED nonExecVars

\* _write_output, lines 177-178: one more line reaches the file
TaskWriteLine(t) ==
    /\ worker[t] = "writing"
    /\ Len(files[t].lines) < Len(TaskOutput(t))
    /\ files' = [files EXCEPT ![t].lines =
                    Append(@, TaskOutput(t)[Len(files[t].lines) + 1])]
    /\ UNCHANGED <<lastDisk, pc, mem, disk, pending, idx, worker, saveRet, run_id,
                   num_workers, calls, runs, raised>>
    /\ UNCHANGED nonExecVars

\* _write_output: json.dumps or f.write raises in the middle of the file
TaskWriteRaise(t) ==
    /\ worker[t] = "writing"
    /\ Len(files[t].lines) < Len(TaskOutput(t))
    /\ worker' = [worker EXCEPT ![t] = "raised"]
    /\ raised' = TRUE
    /\ UNCHANGED <<lastDisk, pc, mem, disk, files, pending, idx, saveRet, run_id,
                   num_workers, calls, runs>>
    /\ UNCHANGED nonExecVars

\* _write_output: all lines written, the file is closed
TaskWriteDone(t) ==
    /\ worker[t] = "writing"
    /\ Len(files[t].lines) = Len(TaskOutput(t))
    /\ worker' = [worker EXCEPT ![t] = "done"]
    /\ UNCHANGED <<lastDisk, pc, mem, disk, files, pending, idx, saveRet, run_id,
                   num_workers, calls, runs, raised>>
    /\ UNCHANGED nonExecVars

\* _execute_parallel, lines 150-160: one finished future is handled
ParCollect(t) ==
    /\ pc = "par_collect"
    /\ worker[t] \in {"done", "raised"}
    /\ mem' = TaskEnded(mem, t, worker[t])
    /\ worker' = [worker EXCEPT ![t] = IF worker[t] = "done" THEN "ok" ELSE "err"]
    /\ pc' = "save_open"
    /\ saveRet' = "par_collect"
    /\ UNCHANGED <<lastDisk, disk, files, pending, idx, run_id, num_workers, calls,
                   runs, raised>>
    /\ UNCHANGED nonExecVars

\* _execute_parallel: as_completed is exhausted, execute returns state
ParReturn ==
    /\ pc = "par_collect"
    /\ \A t \in Range(pending) : worker[t] \in {"ok", "err"}
    /\ pc' = "returned"
    /\ UNCHANGED <<lastDisk, mem, disk, files, pending, idx, worker, saveRet, run_id,
                   num_workers, calls, runs, raised>>
    /\ UNCHANGED nonExecVars

\* the executor process (with its workers) is killed
Kill ==
    /\ Live
    /\ pc' = "idle"
    /\ mem' = NoMem
    /\ worker' = [t \in Tasks |-> "none"]
    /\ pending' = <<>>
    /\ idx' = 1
    /\ saveRet' = "none"
    /\ UNCHANGED <<lastDisk, disk, files, run_id, num_workers, calls, runs, raised>>
    /\ UNCHANGED nonExecVars

OffExec == InitExec

NextExec ==
    \/ \E r \in RunIds, w \in WorkerCounts : ExecuteStart(r, w)
    \/ Dispatch
    \/ SaveOpen
    \/ SaveWrite
    \/ SeqMark
    \/ SeqStart
    \/ SeqCollect
    \/ SeqReturn
    \/ ParSubmit
    \/ \E t \in Tasks : WorkerStart(t)
    \/ \E t \in Tasks : TaskRun(t)
    \/ \E t \in Tasks : TaskRunRaise(t)
    \/ \E t \in Tasks : TaskWriteLine(t)
    \/ \E t \in Tasks : TaskWriteRaise(t)
    \/ \E t \in Tasks : TaskWriteDone(t)
    \/ \E t \in Tasks : ParCollect(t)
    \/ ParReturn
    \/ Kill

\* ========================================================================
\* Exact deduplication (operators/dedup/exact_doc.py)
\* ========================================================================
\* MaxChars bounds the characters of a whole stream, MaxStream its documents
MaxChars == 7
MaxStream == 2

\* a text is a sequence of characters
Chars == {"A", "a", " "}
TextsUpTo(n) == UNION {[1..k -> Chars] : k \in 0..n}

\* the characters of the documents of a stream
RECURSIVE StreamChars(_)
StreamChars(docs) ==
    IF docs = <<>> THEN 0 ELSE Len(Head(docs).text) + StreamChars(Tail(docs))

\* str.lower
Lower(c) == IF c = "A" THEN "a" ELSE c
LowerText(s) == [i \in 1..Len(s) |-> Lower(s[i])]

\* re.sub(r"\s+", " ", text)
RECURSIVE CollapseWs(_)
CollapseWs(s) ==
    IF s = <<>> THEN <<>>
    ELSE IF Head(s) = " " /\ Len(s) >= 2 /\ s[2] = " " THEN CollapseWs(Tail(s))
    ELSE <<Head(s)>> \o CollapseWs(Tail(s))

RECURSIVE StripLeft(_)
StripLeft(s) ==
    IF s # <<>> /\ Head(s) = " " THEN StripLeft(Tail(s)) ELSE s

RECURSIVE StripRight(_)
StripRight(s) ==
    IF s # <<>> /\ s[Len(s)] = " " THEN StripRight(SubSeq(s, 1, Len(s) - 1)) ELSE s

\* str.strip
Strip(s) == StripRight(StripLeft(s))

\* mutant: the text is not lowercased
NormalizeText_nolower(text, normalize) ==
    IF ~normalize THEN text ELSE Strip(CollapseWs(text))

\* mutant: runs of whitespace are not collapsed
NormalizeText_nocollapse(text, normalize) ==
    IF ~normalize THEN text ELSE Strip(LowerText(text))

\* ExactDedup._normalize_text
NormalizeText(text, normalize) ==
    IF ~normalize THEN text ELSE Strip(CollapseWs(LowerText(text)))

\* ExactDedup._hash_text: SHA-256 of the normalized text, taken as injective
HashText(text, normalize) == <<"sha256", NormalizeText(text, normalize)>>

\* mutant: the hash of a first occurrence is not remembered
SeenAfter_forget(seen, h, id) == seen

\* ExactDedup.__call__, line 42: self._seen[doc_hash] = doc.id
SeenAfter(seen, h, id) == seen @@ (h :> id)

\* ExactDedup.__call__: (is_unique, hash) and the new _seen
ExactCall(seen, doc, normalize) ==
    LET h == HashText(doc.text, normalize)
    IN IF h \in DOMAIN seen
       THEN [is_unique |-> FALSE, hash |-> h, seen |-> seen]
       ELSE [is_unique |-> TRUE, hash |-> h, seen |-> SeenAfter(seen, h, doc.id)]

EmptyMap == [x \in {} |-> x]

OffDedup ==
    /\ dd_normalize = TRUE
    /\ dd_seen = EmptyMap
    /\ dd_docs = <<>>
    /\ dd_out = <<>>

\* ExactDedup.__init__, with the default normalize=True (the way ScopedDedup
\* constructs it)
InitDedup ==
    /\ dd_normalize = TRUE
    /\ dd_seen = EmptyMap
    /\ dd_docs = <<>>
    /\ dd_out = <<>>

\* ExactDedup.process: one iteration of the loop, for the next document
DedupProcess(text) ==
    /\ Len(dd_docs) < MaxStream
    /\ StreamChars(dd_docs) + Len(text) <= MaxChars
    /\ LET doc == [id |-> Len(dd_docs) + 1, text |-> text]
           r == ExactCall(dd_seen, doc, dd_normalize)
       IN /\ dd_seen' = r.seen
          /\ dd_docs' = Append(dd_docs,
                 [id |-> doc.id, text |-> text,
                  content_hash |-> r.hash,
                  dedup_cluster_id |-> r.hash,
                  dedup_dropped |-> ~r.is_unique,
                  dedup_method |-> IF r.is_unique THEN "none" ELSE "exact"])
          /\ dd_out' = IF r.is_unique THEN Append(dd_out, doc.id) ELSE dd_out
    /\ UNCHANGED dd_normalize
    /\ UNCHANGED nonDedupVars

NextDedup ==
    \E text \in TextsUpTo(MaxChars - StreamChars(dd_docs)) : DedupProcess(text)

\* ========================================================================
\* N-gram decontamination (operators/decontam/ngram_overlap.py)
\* ========================================================================
NgramSize == 2
\* MaxWords bounds the words of all texts passed to add_eval_data and process
MaxWords == 5
MaxEvalCalls == 1
MaxDecontamDocs == 1

\* a text is taken as its sequence of whitespace-separated words
DcWords == {"a", "B"}
DcTextsUpTo(n) == UNION {[1..k -> DcWords] : k \in 0..n}
DcSources == {"s1", "s2"}
DcModes == {"drop", "redact", "downweight", "tag"}
DcThresholds == {<<1, 2>>, <<4, 5>>}
max_matched_ngrams_stored == 10
Redacted == "[REDACTED]"

\* str.lower on a word
LowerWord(w) == IF w = "B" THEN "b" ELSE w
LowerWords(ws) == [i \in 1..Len(ws) |-> LowerWord(ws[i])]

\* NgramDecontaminator._extract_ngrams
ExtractNgrams(text) ==
    LET words == LowerWords(text)
    IN IF Len(words) < NgramSize
       THEN (IF words # <<>> THEN <<words>> ELSE <<>>)
       ELSE [i \in 1..(Len(words) - NgramSize + 1) |-> SubSeq(words, i, i + NgramSize - 1)]

\* NgramDecontaminator._hash_ngram: 64 bits of MD5 of the lowercased n-gram,
\* taken as injective
HashNgram(ngram) == <<"md5", LowerWords(ngram)>>

\* check, lines 104-106
AllEvalHashes(eval) == UNION {eval[src] : src \in DOMAIN eval}

\* check, lines 108-117: the matching n-grams, in document order
MatchedNgrams(ngrams, hashes) ==
    LET RECURSIVE M(_)
        M(s) == IF s = <<>> THEN <<>>
                ELSE IF HashNgram(Head(s)) \in hashes THEN <<Head(s)>> \o M(Tail(s))
                ELSE M(Tail(s))
    IN M(ngrams)

\* check, line 121: the numerator of overlap_score
MatchedCount(ngrams, hashes) ==
    Cardinality({HashNgram(ngrams[i]) : i \in 1..Len(ngrams)} \cap hashes)

\* check, line 122: overlap_score >= overlap_threshold
AtLeast(matched, total, th) == matched * th[2] >= th[1] * total

FirstN(s, n) == IF Len(s) <= n THEN s ELSE SubSeq(s, 1, n)

\* mutant: an empty index counts as matching every n-gram
Check_emptymatches(eval, first, threshold, text) ==
    LET ngrams == ExtractNgrams(text)
    IN [is_contaminated |-> ngrams # <<>>, matched |-> Len(ngrams),
        total |-> Len(ngrams), eval_source |-> "none", matched_ngrams |-> <<>>]

\* NgramDecontaminator.check
Check(eval, first, threshold, text) ==
    LET ngrams == ExtractNgrams(text)
        hashes == AllEvalHashes(eval)
        matched == MatchedNgrams(ngrams, hashes)
        count == MatchedCount(ngrams, hashes)
    IN IF DOMAIN eval = {} \/ ngrams = <<>>
       THEN [is_contaminated |-> FALSE, matched |-> 0, total |-> Len(ngrams),
             eval_source |-> "none", matched_ngrams |-> <<>>]
       ELSE [is_contaminated |-> AtLeast(count, Len(ngrams), threshold),
             matched |-> count, total |-> Len(ngrams),
             eval_source |-> IF matched = <<>> THEN "none"
                             ELSE first[HashNgram(matched[1])],
             matched_ngrams |-> FirstN(matched, max_matched_ngrams_stored)]

\* str.replace(ngram, "[REDACTED]") on the word sequence: the occurrences of
\* the n-gram's words, left to right, not overlapping
RECURSIVE ReplaceAll(_, _)
ReplaceAll(ws, pat) ==
    IF ws = <<>> THEN <<>>
    ELSE IF Len(ws) >= Len(pat) /\ SubSeq(ws, 1, Len(pat)) = pat
         THEN <<Redacted>> \o ReplaceAll(SubSeq(ws, Len(pat) + 1, Len(ws)), pat)
         ELSE <<Head(ws)>> \o ReplaceAll(Tail(ws), pat)

\* process, lines 183-185
RECURSIVE RedactText(_, _)
RedactText(ws, ngrams) ==
    IF ngrams = <<>> THEN ws
    ELSE RedactText(ReplaceAll(ws, Head(ngrams)), Tail(ngrams))

NoFlags == [kind |-> "none", matched |-> 0, total |-> 0, eval_source |-> "none"]

\* the contamination_flags entry written by process
Flags(kind, r) ==
    [kind |-> kind, matched |-> r.matched, total |-> r.total, eval_source |-> r.eval_source]

\* process, line 176: max(0.1, 1.0 - overlap_score), as a fraction
SampleWeight(r) ==
    IF 10 * (r.total - r.matched) <= r.total THEN <<1, 10>>
    ELSE <<r.total - r.matched, r.total>>

\* the None that process returns for a dropped document
NoDoc == [id |-> 0, text |-> <<>>, contamination_flags |-> NoFlags, sample_weight |-> <<1, 1>>]

\* a process that removes a contaminated document in every mode
ProcessedDoc_dropall(mode, id, text, r) ==
    IF ~r.is_contaminated
    THEN [id |-> id, text |-> text, contamination_flags |-> NoFlags, sample_weight |-> <<1, 1>>]
    ELSE NoDoc

\* NgramDecontaminator.process: the returned document, or NoDoc when dropped
ProcessedDoc(mode, id, text, r) ==
    IF ~r.is_contaminated
    THEN [id |-> id, text |-> text, contamination_flags |-> NoFlags, sample_weight |-> <<1, 1>>]
    ELSE IF mode = "drop" THEN NoDoc
    ELSE IF mode = "tag"
    THEN [id |-> id, text |-> text, contamination_flags |-> Flags("contaminated", r),
          sample_weight |-> <<1, 1>>]
    ELSE IF mode = "downweight"
    THEN [id |-> id, text |-> text, contamination_flags |-> Flags("downweight", r),
          sample_weight |-> SampleWeight(r)]
    ELSE [id |-> id, text |-> RedactText(text, r.matched_ngrams),
          contamination_flags |-> Flags("redacted", r), sample_weight |-> <<1, 1>>]

\* process, lines 137-170: the statistics after one document
StatsAfter(st, mode, r) ==
    IF ~r.is_contaminated
    THEN [st EXCEPT !.docs_checked = @ + 1]
    ELSE [st EXCEPT !.docs_checked = @ + 1,
                    !.docs_contaminated = @ + 1,
                    !.by_eval_source = IF r.eval_source = "none" THEN @
                                       ELSE [@ EXCEPT ![r.eval_source] = @ + 1],
                    !.docs_dropped = IF mode = "drop" THEN @ + 1 ELSE @,
                    !.docs_tagged = IF mode = "tag" THEN @ + 1 ELSE @,
                    !.docs_downweighted = IF mode = "downweight" THEN @ + 1 ELSE @,
                    !.docs_redacted = IF mode = "redact" THEN @ + 1 ELSE @]

\* DecontamStats defaults
DecontamStats ==
    [docs_checked |-> 0, docs_contaminated |-> 0, docs_dropped |-> 0,
     docs_redacted |-> 0, docs_downweighted |-> 0, docs_tagged |-> 0,
     by_eval_source |-> [src \in DcSources |-> 0]]

OffDecontam ==
    /\ dc_mode = "drop"
    /\ dc_threshold = <<4, 5>>
    /\ dc_eval = EmptyMap
    /\ dc_first = EmptyMap
    /\ dc_stats = DecontamStats
    /\ dc_docs = <<>>
    /\ dc_out = <<>>
    /\ dc_calls = 0
    /\ dc_words = 0

\* NgramDecontaminator.__init__
InitDecontam ==
    /\ dc_mode \in DcModes
    /\ dc_threshold \in DcThresholds
    /\ dc_eval = EmptyMap
    /\ dc_first = EmptyMap
    /\ dc_stats = DecontamStats
    /\ dc_docs = <<>>
    /\ dc_out = <<>>
    /\ dc_calls = 0
    /\ dc_words = 0

\* NgramDecontaminator.add_eval_data, for a list of one text
AddEvalData(text, source) ==
    /\ dc_calls < MaxEvalCalls
    /\ dc_words + Len(text) <= MaxWords
    /\ dc_calls' = dc_calls + 1
    /\ dc_words' = dc_words + Len(text)
    /\ LET old == IF source \in DOMAIN dc_eval THEN dc_eval[source] ELSE {}
           ngrams == ExtractNgrams(text)
           new == {HashNgram(ngrams[i]) : i \in 1..Len(ngrams)}
       IN /\ dc_eval' = [src \in DOMAIN dc_eval \cup {source} |->
                            IF src = source THEN old \cup new ELSE dc_eval[src]]
          /\ dc_first' = [h \in DOMAIN dc_first \cup new |->
                            IF h \in DOMAIN dc_first THEN dc_first[h] ELSE source]
    /\ UNCHANGED <<dc_mode, dc_threshold, dc_stats, dc_docs, dc_out>>
    /\ UNCHANGED nonDecontamVars

\* process_stream: one iteration, NgramDecontaminator.process on the next document
DecontamProcess(text) ==
    /\ Len(dc_docs) < MaxDecontamDocs
    /\ dc_words + Len(text) <= MaxWords
    /\ dc_words' = dc_words + Len(text)
    /\ LET id == Len(dc_docs) + 1
           r == Check(dc_eval, dc_first, dc_threshold, text)
           out == ProcessedDoc(dc_mode, id, text, r)
       IN /\ dc_docs' = Append(dc_docs, [id |-> id, text |-> text, result |-> r,
                                         index |-> AllEvalHashes(dc_eval)])
          /\ dc_stats' = StatsAfter(dc_stats, dc_mode, r)
          /\ dc_out' = IF out = NoDoc THEN dc_out ELSE Append(dc_out, out)
    /\ UNCHANGED <<dc_mode, dc_threshold, dc_eval, dc_first, dc_calls>>
    /\ UNCHANGED nonDecontamVars

NextDecontam ==
    \/ \E text \in DcTextsUpTo(MaxWords - dc_words), src \in DcSources :
          AddEvalData(text, src)
    \/ \E text \in DcTextsUpTo(MaxWords - dc_words) : DecontamProcess(text)

\* ========================================================================
\* Slice sampler (mixing/sampler.py)
\* ========================================================================
MaxCap == 2
MaxDocTokens == 2
MaxSamplerDocs == 3

SpTags == {"news", "wiki"}
\* the slice tag lists a document can carry (sorted, without repeats)
SpTagLists == {<<>>, <<"news">>, <<"wiki">>, <<"news", "wiki">>}
\* the cap dictionaries: any subset of the tags, each with a cap
SpCapMaps == UNION {[T -> 1..MaxCap] : T \in SUBSET SpTags}

\* mutant: a slice never counts as capped
IsSliceCapped_never(caps, tokens, tag) == FALSE

\* SliceSampler._is_slice_capped
IsSliceCapped(caps, tokens, tag) ==
    /\ tag \in DOMAIN caps
    /\ tokens[tag] >= caps[tag]

\* add_document, lines 61-63
AnyCapped(caps, tokens, tags) ==
    \E i \in 1..Len(tags) : IsSliceCapped(caps, tokens, tags[i])

\* add_document, lines 66-68: the counters after an admitted document
TokensAfter(tokens, tags, token_count) ==
    [t \in DOMAIN tokens |-> IF t \in Range(tags) THEN tokens[t] + token_count
                             ELSE tokens[t]]

\* add_document, lines 66-68: the buckets after an admitted document
BucketsAfter(buckets, tags, id) ==
    [t \in DOMAIN buckets |-> IF t \in Range(tags) THEN Append(buckets[t], id)
                              ELSE buckets[t]]

OffSampler ==
    /\ sp_caps = EmptyMap
    /\ sp_tokens = [t \in SpTags |-> 0]
    /\ sp_docs = [t \in SpTags |-> <<>>]
    /\ sp_in = <<>>

\* SliceSampler.__init__
InitSampler ==
    /\ sp_caps \in SpCapMaps
    /\ sp_tokens = [t \in SpTags |-> 0]
    /\ sp_docs = [t \in SpTags |-> <<>>]
    /\ sp_in = <<>>

\* SliceSampler.add_document
AddDocument(tags, token_count) ==
    /\ Len(sp_in) < MaxSamplerDocs
    /\ LET id == Len(sp_in) + 1
           admitted == ~AnyCapped(sp_caps, sp_tokens, tags)
       IN /\ sp_in' = Append(sp_in, [id |-> id, slice_tags |-> tags,
                                     token_count |-> token_count,
                                     admitted |-> admitted])
          /\ sp_tokens' = IF admitted THEN TokensAfter(sp_tokens, tags, token_count)
                          ELSE sp_tokens
          /\ sp_docs' = IF admitted THEN BucketsAfter(sp_docs, tags, id)
                        ELSE sp_docs
    /\ UNCHANGED sp_caps
    /\ UNCHANGED nonSamplerVars

NextSampler ==
    \E tags \in SpTagLists, n \in 0..MaxDocTokens : AddDocument(tags, n)

\* ========================================================================
\* Policy execution loop (policy/execute.py)
\* ========================================================================
MaxPolicyDocs == 3
MaxBudget == 3
\* execute_policy's shard_size (10000 in the source), scaled down
shard_size == 2

PlDumps == {"d1", "d2"}
PlTexts == {<<"A">>, <<"a", " ">>, <<"A", "A">>}
PlTokenCounts == 1..2
PlTags == {"dump=d1", "dump=d2", "lang=en"}
PlCapMaps == {EmptyMap, [t \in {"dump=d1"} |-> 1], [t \in {"lang=en"} |-> 2]}
PlScopes == {"global", "per_dump"}

\* SliceRegistry dump extractor
DumpTag(dump) == IF dump = "d1" THEN "dump=d1" ELSE "dump=d2"

\* assign_slices: sorted(set(tags)) of the dump and language extractors
AssignSlices(dump) == <<DumpTag(dump), "lang=en">>

\* mutant: one deduper for every document, whatever the scope
DeduperKey_shared(scope, dump) == "global"

\* ScopedDedup._get_deduper: the key of the deduper responsible for a document
DeduperKey(scope, dump) ==
    IF scope = "global" THEN "global"
    ELSE IF dump = "none" THEN "unknown" ELSE dump

\* ScopedDedup._get_deduper: the deduper's _seen, created empty on first use
DeduperSeen(dedupers, key) ==
    IF key \in DOMAIN dedupers THEN dedupers[key] ELSE EmptyMap

\* mutant: a document is not registered by its deduper
DedupersAfter_unregistered(dedupers, key, seen) == dedupers

\* ScopedDedup.process: the dedupers after the document went through `key`
DedupersAfter(dedupers, key, seen) ==
    [k \in DOMAIN dedupers \cup {key} |-> IF k = key THEN seen ELSE dedupers[k]]

\* mutant: the budget check ignores the tokens of the current document
OverBudget_late(total, doc_tokens, max_tokens) == total > max_tokens

\* execute_policy, line 139
OverBudget(total, doc_tokens, max_tokens) == total + doc_tokens > max_tokens

\* SliceStats defaults
SliceStats == [doc_count |-> 0, token_count |-> 0, dedup_dropped |-> 0,
               decontam_dropped |-> 0]

\* SliceStatsCollector.add_document on one SliceStats
StatsBump(st, token_count, kept, dedup_dropped, decontam_dropped) ==
    [doc_count |-> IF kept /\ ~dedup_dropped /\ ~decontam_dropped
                   THEN st.doc_count + 1 ELSE st.doc_count,
     token_count |-> IF kept /\ ~dedup_dropped /\ ~decontam_dropped
                     THEN st.token_count + token_count ELSE st.token_count,
     dedup_dropped |-> IF dedup_dropped THEN st.dedup_dropped + 1 ELSE st.dedup_dropped,
     decontam_dropped |-> IF decontam_dropped THEN st.decontam_dropped + 1
                          ELSE st.decontam_dropped]

\* a collector whose total counts every kept document, dropped or not
StatsAdd_total(stats, doc, kept, dedup_dropped, decontam_dropped) ==
    [total |-> StatsBump(stats.total, doc.token_count, kept, FALSE, FALSE),
     by_slice |-> [t \in DOMAIN stats.by_slice |->
                      IF t \in Range(doc.slice_tags)
                      THEN StatsBump(stats.by_slice[t], doc.token_count, kept,
                                     dedup_dropped, decontam_dropped)
                      ELSE stats.by_slice[t]]]

\* SliceStatsCollector.add_document
StatsAdd(stats, doc, kept, dedup_dropped, decontam_dropped) ==
    [total |-> StatsBump(stats.total, doc.token_count, kept, dedup_dropped,
                         decontam_dropped),
     by_slice |-> [t \in DOMAIN stats.by_slice |->
                      IF t \in Range(doc.slice_tags)
                      THEN StatsBump(stats.by_slice[t], doc.token_count, kept,
                                     dedup_dropped, decontam_dropped)
                      ELSE stats.by_slice[t]]]

NoManifest == [written |-> FALSE, shards |-> <<>>, total_docs |-> 0, total_tokens |-> 0]

OffPolicy ==
    /\ pl_policy = [max_tokens |-> 0, max_tokens_per_slice |-> EmptyMap,
                    scope |-> "global", decontam_enabled |-> FALSE]
    /\ pl_pc = "loop"
    /\ pl_dedupers = EmptyMap
    /\ pl_tokens = [t \in PlTags |-> 0]
    /\ pl_buckets = [t \in PlTags |-> <<>>]
    /\ pl_stats = [total |-> SliceStats, by_slice |-> [t \in PlTags |-> SliceStats]]
    /\ pl_total = 0
    /\ pl_buffer = <<>>
    /\ pl_shards = <<>>
    /\ pl_files = <<>>
    /\ pl_manifest = NoManifest
    /\ pl_in = <<>>

\* execute_policy, lines 36-99: the operators and counters before the loop
InitPolicy ==
    /\ pl_policy \in [max_tokens : 0..MaxBudget, max_tokens_per_slice : PlCapMaps,
                      scope : PlScopes, decontam_enabled : BOOLEAN]
    /\ pl_pc = "loop"
    /\ pl_dedupers = EmptyMap
    /\ pl_tokens = [t \in PlTags |-> 0]
    /\ pl_buckets = [t \in PlTags |-> <<>>]
    /\ pl_stats = [total |-> SliceStats, by_slice |-> [t \in PlTags |-> SliceStats]]
    /\ pl_total = 0
    /\ pl_buffer = <<>>
    /\ pl_shards = <<>>
    /\ pl_files = <<>>
    /\ pl_manifest = NoManifest
    /\ pl_in = <<>>

\* history entry for a consumed input document
Consumed(id, outcome) == [id |-> id, outcome |-> outcome]

\* write_shard, lines 86-97: the shard entries after a flush of `buffer`
ShardsAfterWrite(shards, buffer) ==
    IF buffer = <<>> THEN shards
    ELSE Append(shards, [path |-> Len(shards), doc_count |-> Len(buffer)])

\* write_shard: the shard files after a flush of `buffer`
FilesAfterWrite(fs, buffer) == IF buffer = <<>> THEN fs ELSE Append(fs, buffer)

\* execute_policy, lines 101-154: the loop body for one input document.
\* lang_ok / quality_ok: the verdicts of the language and quality filters.
PolicyStep(lang_ok, quality_ok, text, dump, token_count) ==
    /\ pl_pc = "loop"
    /\ Len(pl_in) < MaxPolicyDocs
    /\ LET id == Len(pl_in) + 1
           doc == [id |-> id, text |-> text, dump |-> dump,
                   token_count |-> token_count, slice_tags |-> AssignSlices(dump)]
           key == DeduperKey(pl_policy.scope, dump)
           r == ExactCall(DeduperSeen(pl_dedupers, key), doc, TRUE)
           c == Check(EmptyMap, EmptyMap, <<4, 5>>, text)
           contaminated == pl_policy.decontam_enabled /\ c.is_contaminated
           admitted == ~AnyCapped(pl_policy.max_tokens_per_slice, pl_tokens,
                                  doc.slice_tags)
       IN IF ~lang_ok \/ ~quality_ok
          THEN \* lines 104-105 and 112-113: continue
               /\ pl_in' = Append(pl_in, Consumed(id, IF ~lang_ok THEN "lang"
                                                     ELSE "quality"))
               /\ UNCHANGED <<pl_pc, pl_dedupers, pl_tokens, pl_buckets, pl_stats,
                              pl_total, pl_buffer, pl_shards, pl_files>>
          ELSE IF ~r.is_unique
          THEN \* lines 124-126
               /\ pl_in' = Append(pl_in, Consumed(id, "dedup"))
               /\ pl_stats' = StatsAdd(pl_stats, doc, FALSE, TRUE, FALSE)
               /\ UNCHANGED <<pl_pc, pl_dedupers, pl_tokens, pl_buckets,
                              pl_total, pl_buffer, pl_shards, pl_files>>
          ELSE IF contaminated
          THEN \* lines 132-134
               /\ pl_in' = Append(pl_in, Consumed(id, "decontam"))
               /\ pl_dedupers' = DedupersAfter(pl_dedupers, key, r.seen)
               /\ pl_stats' = StatsAdd(pl_stats, doc, FALSE, FALSE, TRUE)
               /\ UNCHANGED <<pl_pc, pl_tokens, pl_buckets,
                              pl_total, pl_buffer, pl_shards, pl_files>>
          ELSE IF OverBudget(pl_total, token_count, pl_policy.max_tokens)
          THEN \* lines 139-140: break
               /\ pl_in' = Append(pl_in, Consumed(id, "budget"))
               /\ pl_dedupers' = DedupersAfter(pl_dedupers, key, r.seen)
               /\ pl_pc' = "finish"
               /\ UNCHANGED <<pl_tokens, pl_buckets, pl_stats,
                              pl_total, pl_buffer, pl_shards, pl_files>>
          ELSE IF ~admitted
          THEN \* lines 143-144
               /\ pl_in' = Append(pl_in, Consumed(id, "cap"))
               /\ pl_dedupers' = DedupersAfter(pl_dedupers, key, r.seen)
               /\ UNCHANGED <<pl_pc, pl_tokens, pl_buckets, pl_stats,
                              pl_total, pl_buffer, pl_shards, pl_files>>
          ELSE \* lines 147-154
               /\ pl_in' = Append(pl_in, Consumed(id, "kept"))
               /\ pl_dedupers' = DedupersAfter(pl_dedupers, key, r.seen)
               /\ pl_tokens' = TokensAfter(pl_tokens, doc.slice_tags, token_count)
               /\ pl_buckets' = BucketsAfter(pl_buckets, doc.slice_tags, id)
               /\ pl_stats' = StatsAdd(pl_stats, doc, TRUE, FALSE, FALSE)
               /\ pl_total' = pl_total + token_count
               /\ LET buffer == Append(pl_buffer, doc)
                  IN IF Len(buffer) >= shard_size
                     THEN /\ pl_shards' = ShardsAfterWrite(pl_shards, buffer)
                          /\ pl_files' = FilesAfterWrite(pl_files, buffer)
                          /\ pl_buffer' = <<>>
                     ELSE /\ pl_buffer' = buffer
                          /\ UNCHANGED <<pl_shards, pl_files>>
               /\ UNCHANGED pl_pc
    /\ UNCHANGED <<pl_policy, pl_manifest>>
    /\ UNCHANGED nonPolicyVars

\* the input iterator is exhausted: the for loop ends
PolicyInputEnd ==
    /\ pl_pc = "loop"
    /\ pl_pc' = "finish"
    /\ UNCHANGED <<pl_policy, pl_dedupers, pl_tokens, pl_buckets, pl_stats,
                   pl_total, pl_buffer, pl_shards, pl_files, pl_manifest, pl_in>>
    /\ UNCHANGED nonPolicyVars

\* mutant: the manifest is written without flushing the last shard
PolicyFinish_noflush ==
    /\ pl_pc = "finish"
    /\ pl_manifest' = [written |-> TRUE, shards |-> pl_shards,
                       total_docs |-> pl_stats.total.doc_count,
                       total_tokens |-> pl_stats.total.token_count]
    /\ pl_pc' = "done"
    /\ UNCHANGED <<pl_policy, pl_dedupers, pl_tokens, pl_buckets, pl_stats,
                   pl_total, pl_in, pl_shards, pl_files, pl_buffer>>
    /\ UNCHANGED nonPolicyVars

\* execute_policy, lines 156-180: last shard, slice stats, manifest
PolicyFinish ==
    /\ pl_pc = "finish"
    /\ pl_shards' = ShardsAfterWrite(pl_shards, pl_buffer)
    /\ pl_files' = FilesAfterWrite(pl_files, pl_buffer)
    /\ pl_buffer' = <<>>
    /\ pl_manifest' = [written |-> TRUE, shards |-> pl_shards',
                       total_docs |-> pl_stats.total.doc_count,
                       total_tokens |-> pl_stats.total.token_count]
    /\ pl_pc' = "done"
    /\ UNCHANGED <<pl_policy, pl_dedupers, pl_tokens, pl_buckets, pl_stats,
                   pl_total, pl_in>>
    /\ UNCHANGED nonPolicyVars

NextPolicy ==
    \/ \E lang_ok, quality_ok \in BOOLEAN, text \in PlTexts, dump \in PlDumps,
          n \in PlTokenCounts : PolicyStep(lang_ok, quality_ok, text, dump, n)
    \/ PolicyInputEnd
    \/ PolicyFinish

\* ========================================================================
\* Artifact store (store/artifact_store.py, core/manifest.py)
\* ========================================================================
MaxSaves == 2
MaxReads == 2
\* number of write(2) calls the bytes of one manifest take to reach the file
ManifestChunks == 2

Hashes == {"h1", "h2"}
Manifests == {"m1", "m2"}

\* a manifest.json: `written` of the ManifestChunks chunks of manifest m
NoFile == [present |-> FALSE, m |-> "none", written |-> 0]

\* Path.exists on manifest.json
PathExists(fs, h) == fs[h].present

\* the file holds the whole JSON text of a manifest
FileComplete(f) == f.present /\ f.written = ManifestChunks

\* the file is there but holds only a proper prefix of the JSON text
FilePartial(f) == f.present /\ f.written < ManifestChunks

\* DatasetManifest.load: json.loads of a proper prefix of a JSON object raises
Load(f) == IF FileComplete(f) THEN f.m ELSE "JSONDecodeError"

WriterIdle == [pc |-> "idle", hash |-> "none", m |-> "none", raised |-> FALSE]
ReaderIdle == [pc |-> "idle", hash |-> "none"]

\* history entry for a call of the reader
Observed(op, h, result, f) ==
    [op |-> op, hash |-> h, result |-> result, partial |-> FilePartial(f)]

\* ArtifactStore.__init__ on an empty base_path
InitStore ==
    /\ st_dirs = {}
    /\ st_files = [h \in Hashes |-> NoFile]
    /\ st_writer = WriterIdle
    /\ st_saves = 0
    /\ st_reader = ReaderIdle
    /\ st_obs = <<>>

OffStore == InitStore

\* ArtifactStore.create_artifact_dir
CreateArtifactDir(h) ==
    /\ st_dirs' = st_dirs \cup {h}
    /\ UNCHANGED <<st_files, st_writer, st_saves, st_reader, st_obs>>
    /\ UNCHANGED nonStoreVars

\* ArtifactStore.save_manifest -> DatasetManifest.save -> Path.write_text:
\* open(path, "w") creates or truncates manifest.json in place; it raises
\* FileNotFoundError when the artifact directory is missing.
SaveManifestOpen(h, m) ==
    /\ st_writer.pc = "idle"
    /\ st_saves < MaxSaves
    /\ st_saves' = st_saves + 1
    /\ IF h \in st_dirs
       THEN /\ st_files' = [st_files EXCEPT ![h] = [present |-> TRUE, m |-> m,
                                                   written |-> 0]]
            /\ st_writer' = [pc |-> "writing", hash |-> h, m |-> m, raised |-> FALSE]
       ELSE /\ st_writer' = [pc |-> "idle", hash |-> h, m |-> m, raised |-> TRUE]
            /\ UNCHANGED st_files
    /\ UNCHANGED <<st_dirs, st_reader, st_obs>>
    /\ UNCHANGED nonStoreVars

\* Path.write_text: the next chunk of the text reaches the file; after the
\* last one the file is closed and save_manifest returns
SaveManifestWrite ==
    /\ st_writer.pc = "writing"
    /\ LET h == st_writer.hash
           n == st_files[h].written + 1
       IN /\ st_files' = [st_files EXCEPT ![h].written = n]
          /\ st_writer' = IF n = ManifestChunks
                          THEN [st_writer EXCEPT !.pc = "idle"]
                          ELSE st_writer
    /\ UNCHANGED <<st_dirs, st_saves, st_reader, st_obs>>
    /\ UNCHANGED nonStoreVars

\* ArtifactStore.exists
Exists(h) ==
    /\ st_reader.pc = "idle"
    /\ Len(st_obs) < MaxReads
    /\ st_obs' = Append(st_obs,
                        Observed("exists", h,
                                 IF PathExists(st_files, h) THEN "True" ELSE "False",
                                 st_files[h]))
    /\ UNCHANGED <<st_dirs, st_files, st_writer, st_saves, st_reader>>
    /\ UNCHANGED nonStoreVars

\* ArtifactStore.get_manifest, lines 52-55: the exists test
GetManifestCheck(h) ==
    /\ st_reader.pc = "idle"
    /\ Len(st_obs) < MaxReads
    /\ IF ~PathExists(st_files, h)
       THEN /\ st_obs' = Append(st_obs, Observed("get_manifest", h, "None", st_files[h]))
            /\ UNCHANGED st_reader
       ELSE /\ st_reader' = [pc |-> "load", hash |-> h]
            /\ UNCHANGED st_obs
    /\ UNCHANGED <<st_dirs, st_files, st_writer, st_saves>>
    /\ UNCHANGED nonStoreVars

\* ArtifactStore.get_manifest, line 56: DatasetManifest.load
GetManifestLoad ==
    /\ st_reader.pc = "load"
    /\ LET h == st_reader.hash
       IN st_obs' = Append(st_obs, Observed("get_manifest", h, Load(st_files[h]),
                                            st_files[h]))
    /\ st_reader' = ReaderIdle
    /\ UNCHANGED <<st_dirs, st_files, st_writer, st_saves>>
    /\ UNCHANGED nonStoreVars

NextStore ==
    \/ \E h \in Hashes : CreateArtifactDir(h)
    \/ \E h \in Hashes, m \in Manifests : SaveManifestOpen(h, m)
    \/ SaveManifestWrite
    \/ \E h \in Hashes : Exists(h)
    \/ \E h \in Hashes : GetManifestCheck(h)
    \/ GetManifestLoad

\* ========================================================================
\* The executor under a pipeline with state that spans shards: the same
\* shards run by _execute_sequential and by _execute_parallel
\* (pipeline/executors/local.py), the pipeline being one global ExactDedup
\* ========================================================================
MaxShardDocs == 1

SfTexts == {<<"A">>, <<"a">>}
SfShards == UNION {[1..n -> SfTexts] : n \in 0..MaxShardDocs}

\* the documents read from shard t
SfInput(shards, t) ==
    [k \in 1..Len(shards[t]) |-> [id |-> t * (MaxShardDocs + 1) + k, text |-> shards[t][k]]]

\* pipeline.run with the block ExactDedup.process: the documents emitted and
\* the deduper's _seen afterwards
RECURSIVE DedupRun(_, _)
DedupRun(seen, docs) ==
    IF docs = <<>> THEN [out |-> <<>>, seen |-> seen]
    ELSE LET r == ExactCall(seen, Head(docs), TRUE)
             rest == DedupRun(r.seen, Tail(docs))
         IN [out |-> IF r.is_unique THEN <<Head(docs)>> \o rest.out ELSE rest.out,
             seen |-> rest.seen]

\* pickle of the pipeline passed to executor.submit: the worker's pipeline is
\* a copy of the parent's, which no task has touched
PickledSeen(parentSeen) == parentSeen

OffStateful ==
    /\ sf_shards = [t \in Tasks |-> <<>>]
    /\ sq_idx = 0
    /\ sq_seen = EmptyMap
    /\ sq_files = [t \in Tasks |-> NoShardFile]
    /\ sq_tasks = NoTasks
    /\ pr_pc = "submit"
    /\ pr_copy = [t \in Tasks |-> EmptyMap]
    /\ pr_future = [t \in Tasks |-> "none"]
    /\ pr_files = [t \in Tasks |-> NoShardFile]
    /\ pr_tasks = NoTasks

\* two fresh runs (new output directory, fresh pipeline) over the same shards
InitStateful ==
    /\ sf_shards \in [Tasks -> SfShards]
    /\ sq_idx = 0
    /\ sq_seen = EmptyMap
    /\ sq_files = [t \in Tasks |-> NoShardFile]
    /\ sq_tasks = NoTasks
    /\ pr_pc = "submit"
    /\ pr_copy = [t \in Tasks |-> EmptyMap]
    /\ pr_future = [t \in Tasks |-> "none"]
    /\ pr_files = [t \in Tasks |-> NoShardFile]
    /\ pr_tasks = NoTasks

\* _execute_sequential: one iteration of the loop, on the shared pipeline
SequentialTask ==
    /\ sq_idx < NumShards
    /\ LET t == sq_idx
           r == DedupRun(sq_seen, SfInput(sf_shards, t))
       IN /\ sq_seen' = r.seen
          /\ sq_files' = [sq_files EXCEPT ![t] = [exists |-> TRUE, lines |-> r.out]]
          /\ sq_tasks' = [sq_tasks EXCEPT ![t] = [status |-> "completed",
                                                  docs_processed |-> Len(r.out),
                                                  error |-> "none"]]
    /\ sq_idx' = sq_idx + 1
    /\ UNCHANGED <<sf_shards, pr_pc, pr_copy, pr_future, pr_files, pr_tasks>>
    /\ UNCHANGED nonStatefulVars

\* _execute_parallel, lines 139-148: every task is marked running and
\* submitted with its own pickled copy of the pipeline
ParallelSubmit ==
    /\ pr_pc = "submit"
    /\ pr_tasks' = [t \in Tasks |-> [pr_tasks[t] EXCEPT !.status = "running"]]
    /\ pr_copy' = [t \in Tasks |-> PickledSeen(EmptyMap)]
    /\ pr_future' = [t \in Tasks |-> "queued"]
    /\ pr_pc' = "collect"
    /\ UNCHANGED <<sf_shards, sq_idx, sq_seen, sq_files, sq_tasks, pr_files>>
    /\ UNCHANGED nonStatefulVars

\* _run_task in a worker process, on the worker's copy of the pipeline
ParallelRunTask(t) ==
    /\ pr_future[t] = "queued"
    /\ LET r == DedupRun(pr_copy[t], SfInput(sf_shards, t))
       IN /\ pr_copy' = [pr_copy EXCEPT ![t] = r.seen]
          /\ pr_files' = [pr_files EXCEPT ![t] = [exists |-> TRUE, lines |-> r.out]]
    /\ pr_future' = [pr_future EXCEPT ![t] = "done"]
    /\ UNCHANGED <<sf_shards, sq_idx, sq_seen, sq_files, sq_tasks, pr_pc, pr_tasks>>
    /\ UNCHANGED nonStatefulVars

\* _execute_parallel, lines 150-160: a finished future is collected
ParallelCollect(t) ==
    /\ pr_pc = "collect"
    /\ pr_future[t] = "done"
    /\ pr_future' = [pr_future EXCEPT ![t] = "collected"]
    /\ pr_tasks' = [pr_tasks EXCEPT ![t] = [status |-> "completed",
                                            docs_processed |-> Len(pr_files[t].lines),
                                            error |-> "none"]]
    /\ UNCHANGED <<sf_shards, sq_idx, sq_seen, sq_files, sq_tasks, pr_pc, pr_copy,
                   pr_files>>
    /\ UNCHANGED nonStatefulVars

\* _execute_parallel returns once every future was collected
ParallelReturn ==
    /\ pr_pc = "collect"
    /\ \A t \in Tasks : pr_future[t] = "collected"
    /\ pr_pc' = "returned"
    /\ UNCHANGED <<sf_shards, sq_idx, sq_seen, sq_files, sq_tasks, pr_copy, pr_future,
                   pr_files, pr_tasks>>
    /\ UNCHANGED nonStatefulVars

NextStateful ==
    \/ SequentialTask
    \/ ParallelSubmit
    \/ \E t \in Tasks : ParallelRunTask(t)
    \/ \E t \in Tasks : ParallelCollect(t)
    \/ ParallelReturn

\* ========================================================================
\* Scoped deduplication (operators/dedup/scope.py), method "exact"
\* ========================================================================
MaxScopedDocs == 3

\* values of metadata.dump; "none": the document carries no dump
ScDumps == {"d1", "d2", "none"}

OffScoped ==
    /\ sc_scope = "global"
    /\ sc_dedupers = EmptyMap
    /\ sc_docs = <<>>
    /\ sc_out = <<>>

\* ScopedDedup.__init__
InitScoped ==
    /\ sc_scope \in PlScopes
    /\ sc_dedupers = EmptyMap
    /\ sc_docs = <<>>
    /\ sc_out = <<>>

\* ScopedDedup.process: one iteration of the loop, for the next document
ScopedProcess(text, dump) ==
    /\ Len(sc_docs) < MaxScopedDocs
    /\ LET id == Len(sc_docs) + 1
           key == DeduperKey(sc_scope, dump)
           r == ExactCall(DeduperSeen(sc_dedupers, key), [id |-> id, text |-> text], TRUE)
       IN /\ sc_dedupers' = DedupersAfter(sc_dedupers, key, r.seen)
          /\ sc_docs' = Append(sc_docs,
                 [id |-> id, text |-> text, dump |-> dump,
                  content_hash |-> r.hash,
                  dedup_cluster_id |-> r.hash,
                  dedup_method |-> "exact",
                  dedup_scope |-> sc_scope,
                  dedup_dropped |-> ~r.is_unique])
          /\ sc_out' = IF r.is_unique THEN Append(sc_out, id) ELSE sc_out
    /\ UNCHANGED sc_scope
    /\ UNCHANGED nonScopedVars

NextScoped == \E text \in PlTexts, dump \in ScDumps : ScopedProcess(text, dump)

\* ========================================================================
\* MinHash LSH deduplication (operators/dedup/minhash.py)
\* ========================================================================
num_bands == 2
MaxBandKey == 2
MaxMinhashDocs == 4

Bands == 1..num_bands

\* the values _get_band_hashes can return for a band; which documents
\* collide in which band is decided by md5 and is left open here
BandKeys == 1..MaxBandKey

BandHashes == [Bands -> BandKeys]

EmptyBuckets == [b \in Bands |-> [k \in BandKeys |-> <<>>]]

\* MinHashDedup._find_cluster: bands in index order, the candidates of a
\* bucket in insertion order; the cluster of the first candidate found.
\* Every id in a bucket is in _doc_clusters, so the first candidate of the
\* first non-empty bucket answers. 0 stands for None (ids start at 1).
RECURSIVE FindClusterFrom(_, _, _, _)
FindClusterFrom(buckets, doc_clusters, band_hashes, b) ==
    IF b > num_bands THEN 0
    ELSE LET candidates == buckets[b][band_hashes[b]]
         IN IF candidates # <<>> /\ Head(candidates) \in DOMAIN doc_clusters
            THEN doc_clusters[Head(candidates)]
            ELSE FindClusterFrom(buckets, doc_clusters, band_hashes, b + 1)

FindCluster(buckets, doc_clusters, band_hashes) ==
    FindClusterFrom(buckets, doc_clusters, band_hashes, 1)

\* MinHashDedup._add_to_buckets
AddToBuckets(buckets, doc_id, band_hashes) ==
    [b \in Bands |-> [k \in BandKeys |->
        IF k = band_hashes[b] THEN Append(buckets[b][k], doc_id)
        ELSE buckets[b][k]]]

OffMinhash ==
    /\ mh_buckets = EmptyBuckets
    /\ mh_doc_clusters = EmptyMap
    /\ mh_cluster_docs = EmptyMap
    /\ mh_docs = <<>>
    /\ mh_out = <<>>

\* MinHashDedup.__init__
InitMinhash == OffMinhash

\* MinHashDedup.process: one iteration of the loop (add_document, then the
\* metadata and the yield), for the next document; ids are unique.
MinhashProcess(band_hashes) ==
    /\ Len(mh_docs) < MaxMinhashDocs
    /\ LET id == Len(mh_docs) + 1
           found == FindCluster(mh_buckets, mh_doc_clusters, band_hashes)
           is_first == (found = 0)
           cluster_id == IF is_first THEN id ELSE found
           members == IF cluster_id \in DOMAIN mh_cluster_docs
                      THEN mh_cluster_docs[cluster_id] ELSE <<>>
       IN /\ mh_doc_clusters' =
                 [d \in DOMAIN mh_doc_clusters \cup {id} |->
                     IF d = id THEN cluster_id ELSE mh_doc_clusters[d]]
          /\ mh_cluster_docs' =
                 [c \in DOMAIN mh_cluster_docs \cup {cluster_id} |->
                     IF c = cluster_id THEN Append(members, id)
                     ELSE mh_cluster_docs[c]]
          /\ mh_buckets' = AddToBuckets(mh_buckets, id, band_hashes)
          /\ mh_docs' = Append(mh_docs,
                 [id |-> id, band_hashes |-> band_hashes,
                  dedup_cluster_id |-> cluster_id,
                  dedup_method |-> "minhash",
                  dedup_dropped |-> ~is_first])
          /\ mh_out' = IF is_first THEN Append(mh_out, id) ELSE mh_out
    /\ UNCHANGED nonMinhashVars

NextMinhash == \E band_hashes \in BandHashes : MinhashProcess(band_hashes)

\* ========================================================================
\* Slice statistics (slices/stats.py)
\* ========================================================================
MaxStatsDocs == 2

\* slice tags: the language family and a tag of another family
LangTags == {"lang=de", "lang=en"}
SsTags == LangTags \cup {"dump=d1"}

\* metadata.slice_tags as assign_slices leaves it: sorted, without
\* duplicates, at most one tag per family
SsTagLists == {<<>>, <<"dump=d1">>, <<"lang=de">>, <<"lang=en">>,
               <<"dump=d1", "lang=de">>, <<"dump=d1", "lang=en">>}

SsTokenCounts == {1}

OffStats ==
    /\ ss_stats = [total |-> SliceStats, by_slice |-> [t \in SsTags |-> SliceStats]]
    /\ ss_docs = <<>>

\* SliceStatsCollector.__init__; a tag never added reads as SliceStats()
InitStats == OffStats

\* SliceStatsCollector.add_document
StatsAddDocument(slice_tags, token_count, kept, dedup_dropped, decontam_dropped) ==
    /\ Len(ss_docs) < MaxStatsDocs
    /\ LET doc == [id |-> Len(ss_docs) + 1, slice_tags |-> slice_tags,
                   token_count |-> token_count, kept |-> kept,
                   dedup_dropped |-> dedup_dropped,
                   decontam_dropped |-> decontam_dropped]
       IN /\ ss_stats' = StatsAdd(ss_stats, doc, kept, dedup_dropped, decontam_dropped)
          /\ ss_docs' = Append(ss_docs, doc)
    /\ UNCHANGED nonStatsVars

NextStats ==
    \E slice_tags \in SsTagLists, token_count \in SsTokenCounts,
       kept \in BOOLEAN, dedup_dropped \in BOOLEAN, decontam_dropped \in BOOLEAN :
        StatsAddDocument(slice_tags, token_count, kept, dedup_dropped, decontam_dropped)

\* ========================================================================
\* Graceful shutdown (recovery.py) around the policy loop (policy/execute.py)
\* ========================================================================
MaxShutdownDocs == 4
MaxCallbacks == 1

OffShutdown ==
    /\ gs_requested = FALSE
    /\ gs_callbacks = 0
    /\ gs_flushes = 0
    /\ gs_exit_runs = 0
    /\ gs_pc = "loop"
    /\ gs_in = 0
    /\ gs_buffer = 0
    /\ gs_shards = 0
    /\ gs_manifest = FALSE
    /\ gs_after = 0

\* GracefulShutdown.__init__, register and install_handlers, then
\* execute_policy up to its loop
InitShutdown ==
    /\ gs_requested = FALSE
    /\ gs_callbacks \in 0..MaxCallbacks
    /\ gs_flushes = 0
    /\ gs_exit_runs = 0
    /\ gs_pc = "loop"
    /\ gs_in = 0
    /\ gs_buffer = 0
    /\ gs_shards = 0
    /\ gs_manifest = FALSE
    /\ gs_after = 0

\* execute_policy, lines 101-154: one iteration of the loop; kept says
\* whether the document reaches shard_docs.append. The loop reads no
\* shutdown flag.
ShutdownLoopStep(kept) ==
    /\ gs_pc = "loop"
    /\ gs_in < MaxShutdownDocs
    /\ gs_in' = gs_in + 1
    /\ IF kept
       THEN /\ gs_after' = IF gs_requested THEN gs_after + 1 ELSE gs_after
            /\ IF gs_buffer + 1 >= shard_size
               THEN gs_buffer' = 0 /\ gs_shards' = gs_shards + 1
               ELSE gs_buffer' = gs_buffer + 1 /\ UNCHANGED gs_shards
       ELSE UNCHANGED <<gs_after, gs_buffer, gs_shards>>
    /\ UNCHANGED <<gs_requested, gs_callbacks, gs_flushes, gs_exit_runs, gs_pc,
                   gs_manifest>>
    /\ UNCHANGED nonShutdownVars

\* execute_policy, lines 156-178: input exhausted; final shard, stats, manifest
ShutdownLoopEnd ==
    /\ gs_pc = "loop"
    /\ gs_pc' = "done"
    /\ gs_shards' = IF gs_buffer > 0 THEN gs_shards + 1 ELSE gs_shards
    /\ gs_buffer' = 0
    /\ gs_manifest' = TRUE
    /\ UNCHANGED <<gs_requested, gs_callbacks, gs_flushes, gs_exit_runs, gs_in,
                   gs_after>>
    /\ UNCHANGED nonShutdownVars

\* GracefulShutdown._handle_signal, first signal: set the flag, run _cleanup,
\* return to the interrupted loop
HandleFirstSignal ==
    /\ gs_pc = "loop"
    /\ ~gs_requested
    /\ gs_requested' = TRUE
    /\ gs_flushes' = gs_flushes + gs_callbacks
    /\ UNCHANGED <<gs_callbacks, gs_exit_runs, gs_pc, gs_in, gs_buffer, gs_shards,
                   gs_manifest, gs_after>>
    /\ UNCHANGED nonShutdownVars

\* GracefulShutdown._handle_signal, second signal: sys.exit(1); SystemExit
\* unwinds execute_policy and the atexit hook runs _cleanup again
HandleSecondSignal ==
    /\ gs_pc = "loop"
    /\ gs_requested
    /\ gs_pc' = "exited"
    /\ gs_exit_runs' = gs_exit_runs + gs_callbacks
    /\ UNCHANGED <<gs_requested, gs_callbacks, gs_flushes, gs_in, gs_buffer,
                   gs_shards, gs_manifest, gs_after>>
    /\ UNCHANGED nonShutdownVars

NextShutdown ==
    \/ \E kept \in BOOLEAN : ShutdownLoopStep(kept)
    \/ ShutdownLoopEnd
    \/ HandleFirstSignal
    \/ HandleSecondSignal

\* ========================================================================
\* Policy hashing (policy/hash.py, policy/schema.py)
\* ========================================================================
MaxHashCalls == 2

\* a dict is the sequence of its <<key, value>> items in insertion order
PhKeys == {"a", "b"}
PhWeights == {"0.3", "0.5"}
PhItemLists ==
    {<<>>} \cup {<<<<k, w>>>> : k \in PhKeys, w \in PhWeights}
           \cup {<<<<k1, w1>>, <<k2, w2>>>> :
                    k1 \in PhKeys, k2 \in PhKeys, w1 \in PhWeights, w2 \in PhWeights}
\* a dict has no key twice
PhDicts == {d \in PhItemLists : \A i, j \in 1..Len(d) : d[i][1] = d[j][1] => i = j}

PhRuleLists == {<<"min_words", "word_rep">>, <<"word_rep", "min_words">>}
PhSeeds == {41, 42}

\* Policy, with the fields of a mapping, a list and a scalar kind
PhPolicies ==
    [seed : PhSeeds, slice_weights : PhDicts, enabled_rules : PhRuleLists]

\* the order of str keys under sort_keys
KeyRank(k) == IF k = "a" THEN 1 ELSE 2

\* json.dumps(..., sort_keys=True) on a dict: the items by ascending key
SortItems_unsorted(d) == d

SortItems(d) ==
    [i \in 1..Len(d) |->
        CHOOSE p \in Range(d) :
            Cardinality({q \in Range(d) : KeyRank(q[1]) < KeyRank(p[1])}) = i - 1]

\* Policy.to_dict: every field, the mappings as they are
PolicyToDict(policy) ==
    [seed |-> policy.seed, slice_weights |-> policy.slice_weights,
     quality |-> [enabled_rules |-> policy.enabled_rules]]

\* canonicalize_policy: the JSON text, as the sequence of its members in
\* sorted key order; lists keep their order
CanonicalizePolicy(policy) ==
    LET data == PolicyToDict(policy)
    IN <<<<"quality", <<<<"enabled_rules", data.quality.enabled_rules>>>>>>,
         <<"seed", data.seed>>,
         <<"slice_weights", SortItems(data.slice_weights)>>>>

\* compute_policy_hash: 16 hex digits of SHA-256, taken as injective
ComputePolicyHash(policy) == <<"sha256", CanonicalizePolicy(policy)>>

OffPolicyHash == ph_calls = <<>>

InitPolicyHash == OffPolicyHash

\* one call of compute_policy_hash
PolicyHashCall(policy) ==
    /\ Len(ph_calls) < MaxHashCalls
    /\ ph_calls' = Append(ph_calls, [policy |-> policy, hash |-> ComputePolicyHash(policy)])
    /\ UNCHANGED nonPolicyHashVars

NextPolicyHash == \E policy \in PhPolicies : PolicyHashCall(policy)

\* ========================================================================
\* Artifact hashing (store/artifact_store.py, policy/hash.py)
\* ========================================================================
MaxArtifactCalls == 2

\* the commits git can answer; "unknown" when git fails
AhCommits == {"c1", "c2"}
AhGitStates == AhCommits \cup {"unknown"}

\* the code_version argument: a version, the empty string, or None ("none")
AhCodeArgs == AhCommits \cup {"", "none"}
AhSignatures == {"in1", "in2"}
AhPolicies ==
    {[seed |-> 42, slice_weights |-> d, enabled_rules |-> <<"min_words", "word_rep">>] :
        d \in {<<<<"a", "0.5">>, <<"b", "0.5">>>>, <<<<"b", "0.5">>, <<"a", "0.5">>>>,
               <<<<"a", "0.3">>>>}}

\* get_code_version
GetCodeVersion(git) == git

\* ArtifactStore.compute_artifact_hash: SHA-256 over the sorted-key JSON of
\* {policy: sorted-key JSON of policy_config, code, input}, taken as injective
ComputeArtifactHash(policy_config, code_version, input_signature) ==
    <<"sha256", <<"code", code_version>>, <<"input", input_signature>>,
      <<"policy", <<"json", policy_config>>>>>>

\* compute_reproducibility_key: `code_version or get_code_version()`, so
\* None and the empty string both read the git state
ComputeReproducibilityKey(policy, input_signature, code_version, git) ==
    LET policy_hash == ComputePolicyHash(policy)
        code_ver == IF code_version \in {"none", ""} THEN GetCodeVersion(git)
                    ELSE code_version
    IN <<"sha256", <<"code", code_ver>>, <<"input", input_signature>>,
         <<"policy", policy_hash>>>>

OffArtifactHash ==
    /\ ah_git = "unknown"
    /\ ah_calls = <<>>

InitArtifactHash ==
    /\ ah_git \in AhGitStates
    /\ ah_calls = <<>>

\* the environment moves: a commit, a checkout, or git becoming unavailable
GitChange(git) ==
    /\ git # ah_git
    /\ ah_git' = git
    /\ UNCHANGED ah_calls
    /\ UNCHANGED nonArtifactHashVars

\* ArtifactStore.compute_artifact_hash(policy.to_dict(), code_version, input_signature)
ArtifactHashCall(policy, code_version, input_signature) ==
    /\ Len(ah_calls) < MaxArtifactCalls
    /\ ah_calls' = Append(ah_calls,
           [fn |-> "compute_artifact_hash", policy |-> policy,
            code_version |-> code_version, input_signature |-> input_signature,
            git |-> ah_git,
            hash |-> ComputeArtifactHash(CanonicalizePolicy(policy), code_version,
                                         input_signature)])
    /\ UNCHANGED ah_git
    /\ UNCHANGED nonArtifactHashVars

\* compute_reproducibility_key(policy, input_signature, code_version)
ReproducibilityKeyCall(policy, code_version, input_signature) ==
    /\ Len(ah_calls) < MaxArtifactCalls
    /\ ah_calls' = Append(ah_calls,
           [fn |-> "compute_reproducibility_key", policy |-> policy,
            code_version |-> code_version, input_signature |-> input_signature,
            git |-> ah_git,
            hash |-> ComputeReproducibilityKey(policy, input_signature, code_version,
                                               ah_git)])
    /\ UNCHANGED ah_git
    /\ UNCHANGED nonArtifactHashVars

NextArtifactHash ==
    \/ \E git \in AhGitStates : GitChange(git)
    \/ \E policy \in AhPolicies, code_version \in AhCommits, sig \in AhSignatures :
          ArtifactHashCall(policy, code_version, sig)
    \/ \E policy \in AhPolicies, code_version \in AhCodeArgs, sig \in AhSignatures :
          ReproducibilityKeyCall(policy, code_version, sig)

\* ========================================================================
\* execute_policy called twice on the same input (policy/execute.py)
\* ========================================================================
MaxRerunDocs == 2

RrTexts == {<<"A">>, <<"A", "A">>}
\* what the language and quality filters make of a document
RrVerdicts == {"lang", "quality", "ok"}

\* dict.__setitem__ on metadata kept as its items in insertion order
SetKey(meta, k, v) ==
    IF \E i \in 1..Len(meta) : meta[i][1] = k
    THEN [i \in 1..Len(meta) |-> IF meta[i][1] = k THEN <<k, v>> ELSE meta[i]]
    ELSE Append(meta, <<k, v>>)

\* a Document as the reader hands it over
RrDocs ==
    {[text |-> t, dump |-> d, verdict |-> v, metadata |-> <<<<"dump", d>>>>] :
        t \in RrTexts, d \in PlDumps, v \in RrVerdicts}

RrInputs == UNION {[1..n -> RrDocs] : n \in 0..MaxRerunDocs}

\* mutant: the dedupers of the previous call are kept
OperatorsAtStart_keepdedup(prev) ==
    [dedupers |-> prev.dedupers,
     tokens |-> [t \in PlTags |-> 0],
     stats |-> [total |-> SliceStats, by_slice |-> [t \in PlTags |-> SliceStats]],
     total |-> 0, buffer |-> <<>>, files |-> <<>>]

\* execute_policy, lines 39-99: operators and counters are created in the
\* call; nothing of `prev`, the state a previous call left, is used
OperatorsAtStart(prev) ==
    [dedupers |-> EmptyMap,
     tokens |-> [t \in PlTags |-> 0],
     stats |-> [total |-> SliceStats, by_slice |-> [t \in PlTags |-> SliceStats]],
     total |-> 0, buffer |-> <<>>, files |-> <<>>]

NoOperators == OperatorsAtStart([dedupers |-> EmptyMap])

\* LanguageFilter.annotate, in place
AnnotateLanguage(meta, verdict) ==
    SetKey(SetKey(meta, "language", IF verdict = "lang" THEN "de" ELSE "en"),
           "language_score", "score")

\* TokenCounter.__call__, in place; the count is a function of the text
CountTokens(meta, text) ==
    SetKey(SetKey(meta, "token_count", Len(text)), "tokenizer", "gpt2")

\* HeuristicQualityFilter.filter, in place
QualityFilter(meta, verdict) ==
    IF verdict = "quality"
    THEN SetKey(SetKey(SetKey(meta, "quality_scores", "scores"),
                       "quality_filter_rejected", TRUE),
                "quality_filter_failed_rules", "rules")
    ELSE SetKey(meta, "quality_scores", "scores")

\* PIIMasker.mask: a new Document over a copy of the metadata
MaskPII(meta) ==
    SetKey(SetKey(meta, "pii_emails_masked", 0), "pii_ips_masked", 0)

\* assign_and_store
StoreSlices(meta, dump) ==
    SetKey(SetKey(meta, "slice_tags", AssignSlices(dump)), "slice_code_version", "v")

\* ScopedDedup.process, lines 60-69
DedupMetadata(meta, hash, scope) ==
    SetKey(SetKey(SetKey(SetKey(meta, "content_hash", hash),
                         "dedup_cluster_id", hash),
                  "dedup_method", "exact"),
           "dedup_scope", scope)

OffRerun ==
    /\ rr_policy = [max_tokens |-> 0, max_tokens_per_slice |-> EmptyMap,
                    scope |-> "global"]
    /\ rr_input = <<>>
    /\ rr_run = 1
    /\ rr_pc = "loop"
    /\ rr_pos = 0
    /\ rr_ops = NoOperators
    /\ rr_first = [done |-> FALSE, files |-> <<>>, stats |-> NoOperators.stats]

\* the first call of execute_policy, up to its loop
InitRerun ==
    /\ rr_policy \in [max_tokens : 0..MaxBudget, max_tokens_per_slice : PlCapMaps,
                      scope : PlScopes]
    /\ rr_input \in RrInputs
    /\ rr_run = 1
    /\ rr_pc = "loop"
    /\ rr_pos = 0
    /\ rr_ops = NoOperators
    /\ rr_first = [done |-> FALSE, files |-> <<>>, stats |-> NoOperators.stats]

\* execute_policy, lines 101-154: the loop body for the next input document
RerunStep ==
    /\ rr_pc = "loop"
    /\ rr_pos < Len(rr_input)
    /\ rr_pos' = rr_pos + 1
    /\ LET id == rr_pos + 1
           in == rr_input[id]
           m1 == AnnotateLanguage(in.metadata, in.verdict)
           m2 == CountTokens(m1, in.text)
           m3 == QualityFilter(m2, in.verdict)
           token_count == Len(in.text)
           tags == AssignSlices(in.dump)
           key == DeduperKey(rr_policy.scope, in.dump)
           r == ExactCall(DeduperSeen(rr_ops.dedupers, key),
                          [id |-> id, text |-> in.text], TRUE)
           m6 == DedupMetadata(StoreSlices(MaskPII(m3), in.dump), r.hash,
                               rr_policy.scope)
           doc == [id |-> id, text |-> in.text, token_count |-> token_count,
                   slice_tags |-> tags, metadata |-> m6]
           deduped == [rr_ops EXCEPT !.dedupers = DedupersAfter(@, key, r.seen)]
       IN IF in.verdict = "lang"
          THEN /\ rr_input' = [rr_input EXCEPT ![id].metadata = m1]
               /\ UNCHANGED <<rr_ops, rr_pc>>
          ELSE /\ rr_input' = [rr_input EXCEPT ![id].metadata = m3]
               /\ IF in.verdict = "quality"
                  THEN UNCHANGED <<rr_ops, rr_pc>>
                  ELSE IF ~r.is_unique
                  THEN /\ rr_ops' = [rr_ops EXCEPT
                              !.stats = StatsAdd(@, doc, FALSE, TRUE, FALSE)]
                       /\ UNCHANGED rr_pc
                  ELSE IF OverBudget(rr_ops.total, token_count, rr_policy.max_tokens)
                  THEN /\ rr_ops' = deduped
                       /\ rr_pc' = "finish"
                  ELSE IF AnyCapped(rr_policy.max_tokens_per_slice, rr_ops.tokens, tags)
                  THEN /\ rr_ops' = deduped
                       /\ UNCHANGED rr_pc
                  ELSE /\ LET buffer == Append(rr_ops.buffer, doc)
                              full == Len(buffer) >= shard_size
                          IN rr_ops' = [deduped EXCEPT
                                 !.tokens = TokensAfter(@, tags, token_count),
                                 !.stats = StatsAdd(@, doc, TRUE, FALSE, FALSE),
                                 !.total = @ + token_count,
                                 !.buffer = IF full THEN <<>> ELSE buffer,
                                 !.files = IF full THEN FilesAfterWrite(@, buffer) ELSE @]
                       /\ UNCHANGED rr_pc
    /\ UNCHANGED <<rr_policy, rr_run, rr_first>>
    /\ UNCHANGED nonRerunVars

\* the input is exhausted: the for loop ends
RerunInputEnd ==
    /\ rr_pc = "loop"
    /\ rr_pos = Len(rr_input)
    /\ rr_pc' = "finish"
    /\ UNCHANGED <<rr_policy, rr_input, rr_run, rr_pos, rr_ops, rr_first>>
    /\ UNCHANGED nonRerunVars

\* execute_policy, lines 156-180: last shard, slice stats, manifest
RerunFinish ==
    /\ rr_pc = "finish"
    /\ rr_pc' = "done"
    /\ rr_ops' = [rr_ops EXCEPT !.buffer = <<>>,
                                !.files = FilesAfterWrite(@, rr_ops.buffer)]
    /\ rr_first' = IF rr_run = 1
                   THEN [done |-> TRUE, files |-> rr_ops'.files, stats |-> rr_ops.stats]
                   ELSE rr_first
    /\ UNCHANGED <<rr_policy, rr_input, rr_run, rr_pos>>
    /\ UNCHANGED nonRerunVars

\* the second call of execute_policy, lines 36-99, on the same policy and
\* the same Document objects
RerunSecondCall ==
    /\ rr_pc = "done"
    /\ rr_run = 1
    /\ rr_run' = 2
    /\ rr_pc' = "loop"
    /\ rr_pos' = 0
    /\ rr_ops' = OperatorsAtStart(rr_ops)
    /\ UNCHANGED <<rr_policy, rr_input, rr_first>>
    /\ UNCHANGED nonRerunVars

NextRerun ==
    \/ RerunStep
    \/ RerunInputEnd
    \/ RerunFinish
    \/ RerunSecondCall

\* ========================================================================
\* Manifest round trip (core/manifest.py)
\* ========================================================================
MaxManifestSaves == 2

\* a shard dict as execute_policy builds it, lines 171-174
MfShardEntry(p, n) == <<<<"path", p>>, <<"checksum", "">>, <<"doc_count", n>>>>
MfShardLists ==
    {<<>>, <<MfShardEntry("shard_00000.jsonl", 2), MfShardEntry("shard_00001.jsonl", 1)>>}
MfStats == {<<>>, <<<<"total_docs", 3>>, <<"total_tokens", 5>>>>}
MfConfigs == {<<>>, <<<<"seed", 42>>, <<"max_tokens", 3>>>>}

\* DatasetManifest objects; dicts are item sequences in insertion order
MfManifests ==
    [dataset_id : {"ds1"}, created_at : {"t1"},
     input_sources : {<<>>, <<"in1">>}, policy_config : MfConfigs,
     policy_config_hash : {"h1"}, code_commit : {"", "c1"},
     code_dirty : BOOLEAN, random_seed : {0, 42}, format : {"jsonl.zst"},
     shards : MfShardLists, stats : MfStats]

MfDefault ==
    [dataset_id |-> "", created_at |-> "", input_sources |-> <<>>,
     policy_config |-> <<>>, policy_config_hash |-> "", code_commit |-> "",
     code_dirty |-> FALSE, random_seed |-> 0, format |-> "jsonl.zst",
     shards |-> <<>>, stats |-> <<>>]

\* JSON text of the values a manifest holds
JsonStr(s) == <<"string", s>>
JsonNum(n) == <<"number", n>>
JsonBool(b) == IF b THEN <<"literal", "true">> ELSE <<"literal", "false">>
JsonNumItems(d) == <<"object", [i \in 1..Len(d) |-> <<d[i][1], JsonNum(d[i][2])>>]>>
JsonStrList(l) == <<"array", [i \in 1..Len(l) |-> JsonStr(l[i])]>>
JsonShard(d) ==
    <<"object", [i \in 1..Len(d) |->
                    <<d[i][1], IF d[i][1] = "doc_count" THEN JsonNum(d[i][2])
                               ELSE JsonStr(d[i][2])>>]>>
JsonShardList(l) == <<"array", [i \in 1..Len(l) |-> JsonShard(l[i])]>>

\* mutant: to_dict leaves code_dirty out
ToDict_nodirty(m) ==
    <<<<"dataset_id", JsonStr(m.dataset_id)>>,
      <<"created_at", JsonStr(m.created_at)>>,
      <<"input_sources", JsonStrList(m.input_sources)>>,
      <<"policy_config", JsonNumItems(m.policy_config)>>,
      <<"policy_config_hash", JsonStr(m.policy_config_hash)>>,
      <<"code_commit", JsonStr(m.code_commit)>>,
      <<"random_seed", JsonNum(m.random_seed)>>,
      <<"format", JsonStr(m.format)>>,
      <<"shards", JsonShardList(m.shards)>>,
      <<"stats", JsonNumItems(m.stats)>>>>

\* DatasetManifest.to_dict, then json.dumps: the members of the JSON object
ToDict(m) ==
    <<<<"dataset_id", JsonStr(m.dataset_id)>>,
      <<"created_at", JsonStr(m.created_at)>>,
      <<"input_sources", JsonStrList(m.input_sources)>>,
      <<"policy_config", JsonNumItems(m.policy_config)>>,
      <<"policy_config_hash", JsonStr(m.policy_config_hash)>>,
      <<"code_commit", JsonStr(m.code_commit)>>,
      <<"code_dirty", JsonBool(m.code_dirty)>>,
      <<"random_seed", JsonNum(m.random_seed)>>,
      <<"format", JsonStr(m.format)>>,
      <<"shards", JsonShardList(m.shards)>>,
      <<"stats", JsonNumItems(m.stats)>>>>

\* json.loads on a JSON value
RECURSIVE JsonLoads(_)
JsonLoads(j) ==
    IF j[1] = "literal" THEN j[2] = "true"
    ELSE IF j[1] \in {"string", "number"} THEN j[2]
    ELSE IF j[1] = "array" THEN [i \in 1..Len(j[2]) |-> JsonLoads(j[2][i])]
    ELSE [i \in 1..Len(j[2]) |-> <<j[2][i][1], JsonLoads(j[2][i][2])>>]

\* data.get(key, default) on the loaded object
DataGet(data, key, default) ==
    IF \E i \in 1..Len(data) : data[i][1] = key
    THEN (CHOOSE p \in Range(data) : p[1] = key)[2]
    ELSE default

\* DatasetManifest.load: the object built from the file's text
ManifestOfText(text) ==
    LET data == JsonLoads(<<"object", text>>)
    IN [dataset_id |-> DataGet(data, "dataset_id", ""),
        created_at |-> DataGet(data, "created_at", ""),
        input_sources |-> DataGet(data, "input_sources", <<>>),
        policy_config |-> DataGet(data, "policy_config", <<>>),
        policy_config_hash |-> DataGet(data, "policy_config_hash", ""),
        code_commit |-> DataGet(data, "code_commit", ""),
        code_dirty |-> DataGet(data, "code_dirty", FALSE),
        random_seed |-> DataGet(data, "random_seed", 0),
        format |-> DataGet(data, "format", "jsonl.zst"),
        shards |-> DataGet(data, "shards", <<>>),
        stats |-> DataGet(data, "stats", <<>>)]

OffManifest ==
    /\ mf_file = "absent"
    /\ mf_saved = MfDefault
    /\ mf_loaded = [done |-> FALSE, manifest |-> MfDefault]
    /\ mf_saves = 0

InitManifest == OffManifest

\* DatasetManifest.save
ManifestSave(m) ==
    /\ mf_saves < MaxManifestSaves
    /\ mf_saves' = mf_saves + 1
    /\ mf_file' = ToDict(m)
    /\ mf_saved' = m
    /\ mf_loaded' = [done |-> FALSE, manifest |-> MfDefault]
    /\ UNCHANGED nonManifestVars

\* DatasetManifest.load of the file a save wrote
ManifestLoad ==
    /\ mf_file # "absent"
    /\ ~mf_loaded.done
    /\ mf_loaded' = [done |-> TRUE, manifest |-> ManifestOfText(mf_file)]
    /\ UNCHANGED <<mf_file, mf_saved, mf_saves>>
    /\ UNCHANGED nonManifestVars

NextManifest ==
    \/ \E m \in MfManifests : ManifestSave(m)
    \/ ManifestLoad

\* ========================================================================
\* A document through the operators of execute_policy
\* (policy/execute.py 101-154, operators/pii_mask.py, decontam/ngram_overlap.py)
\* ========================================================================
MaxChainDocs == 2

ChIds == {"x", "y"}
\* "@" stands for an e-mail address in the text
ChTexts == {<<"A">>, <<"@">>}
\* metadata of an input document, also with keys an operator writes
ChMetadata ==
    {<<>>, <<<<"dump", "d1">>>>,
     <<<<"dump", "d1">>, <<"language", "fr">>, <<"pii_emails_masked", 7>>>>,
     <<<<"url", "u">>, <<"contamination_flags", "old">>, <<"dump", "d2">>>>}
ChDocs == [id : ChIds, text : ChTexts, metadata : ChMetadata]
ChNone == [id |-> "", text |-> <<>>, metadata |-> <<>>]

\* Document.dump
DumpOf(meta) == DataGet(meta, "dump", "none")

\* EMAIL_PATTERN.subn(email_replacement, text)
MaskText(text) == [i \in 1..Len(text) |-> IF text[i] = "@" THEN "{{EMAIL}}" ELSE text[i]]

\* mutant: the masked document starts from empty metadata
MaskDocument_fresh(doc) ==
    [text |-> MaskText(doc.text), id |-> doc.id, metadata |-> MaskPII(<<>>)]

\* PIIMasker.__call__: Document(text=text, id=doc.id, metadata=new_metadata)
MaskDocument(doc) ==
    [text |-> MaskText(doc.text), id |-> doc.id, metadata |-> MaskPII(doc.metadata)]

\* NgramDecontaminator.process on a document that check found contaminated
\* or not: the returned document, ChNone for None
DecontamDocument(doc, mode, contaminated) ==
    IF ~contaminated THEN doc
    ELSE IF mode = "drop" THEN ChNone
    ELSE IF mode = "tag"
    THEN [doc EXCEPT !.metadata = SetKey(@, "contamination_flags", "contaminated")]
    ELSE IF mode = "downweight"
    THEN [doc EXCEPT !.metadata = SetKey(SetKey(@, "contamination_flags", "downweight"),
                                         "sample_weight", "weight")]
    ELSE [text |-> <<Redacted>>, id |-> doc.id,
          metadata |-> SetKey(doc.metadata, "contamination_flags", "redacted")]

OffChain ==
    /\ ch_indexed = FALSE
    /\ ch_mode = "drop"
    /\ ch_in = ChNone
    /\ ch_doc = ChNone
    /\ ch_pc = "next"
    /\ ch_seen = EmptyMap
    /\ ch_out = <<>>
    /\ ch_count = 0

InitChain ==
    /\ ch_indexed \in BOOLEAN
    /\ ch_mode \in DcModes
    /\ ch_in = ChNone
    /\ ch_doc = ChNone
    /\ ch_pc = "next"
    /\ ch_seen = EmptyMap
    /\ ch_out = <<>>
    /\ ch_count = 0

\* for doc in input_docs
ChainTake(doc) ==
    /\ ch_pc = "next"
    /\ ch_count < MaxChainDocs
    /\ ch_count' = ch_count + 1
    /\ ch_in' = doc
    /\ ch_doc' = doc
    /\ ch_pc' = "lang"
    /\ UNCHANGED <<ch_indexed, ch_mode, ch_seen, ch_out>>
    /\ UNCHANGED nonChainVars

\* lang_filter.annotate and the language test, lines 103-105
ChainLanguage(verdict) ==
    /\ ch_pc = "lang"
    /\ ch_doc' = [ch_doc EXCEPT !.metadata = AnnotateLanguage(@, verdict)]
    /\ ch_pc' = IF verdict = "lang" THEN "next" ELSE "tokens"
    /\ UNCHANGED <<ch_indexed, ch_mode, ch_in, ch_seen, ch_out, ch_count>>
    /\ UNCHANGED nonChainVars

\* token_counter(doc), line 108
ChainTokens ==
    /\ ch_pc = "tokens"
    /\ ch_doc' = [ch_doc EXCEPT !.metadata = CountTokens(@, ch_doc.text)]
    /\ ch_pc' = "quality"
    /\ UNCHANGED <<ch_indexed, ch_mode, ch_in, ch_seen, ch_out, ch_count>>
    /\ UNCHANGED nonChainVars

\* quality_filter.filter(doc), lines 111-114
ChainQuality(verdict) ==
    /\ ch_pc = "quality"
    /\ ch_doc' = [ch_doc EXCEPT !.metadata = QualityFilter(@, verdict)]
    /\ ch_pc' = IF verdict = "quality" THEN "next" ELSE "pii"
    /\ UNCHANGED <<ch_indexed, ch_mode, ch_in, ch_seen, ch_out, ch_count>>
    /\ UNCHANGED nonChainVars

\* pii_masker.mask(doc), line 117
ChainMask ==
    /\ ch_pc = "pii"
    /\ ch_doc' = MaskDocument(ch_doc)
    /\ ch_pc' = "slices"
    /\ UNCHANGED <<ch_indexed, ch_mode, ch_in, ch_seen, ch_out, ch_count>>
    /\ UNCHANGED nonChainVars

\* assign_and_store(doc), line 120
ChainSlices ==
    /\ ch_pc = "slices"
    /\ ch_doc' = [ch_doc EXCEPT !.metadata = StoreSlices(@, DumpOf(ch_doc.metadata))]
    /\ ch_pc' = "dedup"
    /\ UNCHANGED <<ch_indexed, ch_mode, ch_in, ch_seen, ch_out, ch_count>>
    /\ UNCHANGED nonChainVars

\* dedup.process(iter([doc])), lines 123-127, with the global scope
ChainDedup ==
    /\ ch_pc = "dedup"
    /\ LET r == ExactCall(ch_seen, ch_doc, TRUE)
           meta == DedupMetadata(ch_doc.metadata, r.hash, "global")
       IN /\ ch_seen' = r.seen
          /\ ch_doc' = [ch_doc EXCEPT !.metadata =
                           IF r.is_unique THEN meta ELSE SetKey(meta, "dedup_dropped", TRUE)]
          /\ ch_pc' = IF r.is_unique THEN "decontam" ELSE "next"
    /\ UNCHANGED <<ch_indexed, ch_mode, ch_in, ch_out, ch_count>>
    /\ UNCHANGED nonChainVars

\* decontam.process(doc), lines 130-135; a document can be found
\* contaminated only when the index holds evaluation data
ChainDecontam(contaminated) ==
    /\ ch_pc = "decontam"
    /\ contaminated => ch_indexed
    /\ LET processed == DecontamDocument(ch_doc, ch_mode, contaminated)
       IN /\ ch_doc' = IF processed = ChNone
                       THEN [ch_doc EXCEPT !.metadata =
                                SetKey(@, "contamination_flags", "dropped")]
                       ELSE processed
          /\ ch_pc' = IF processed = ChNone THEN "next" ELSE "emit"
    /\ UNCHANGED <<ch_indexed, ch_mode, ch_in, ch_seen, ch_out, ch_count>>
    /\ UNCHANGED nonChainVars

\* shard_docs.append(doc), line 149, or the document is left out by the
\* slice cap
ChainEmit(kept) ==
    /\ ch_pc = "emit"
    /\ ch_out' = IF kept THEN Append(ch_out, [in |-> ch_in, doc |-> ch_doc]) ELSE ch_out
    /\ ch_pc' = "next"
    /\ UNCHANGED <<ch_indexed, ch_mode, ch_in, ch_doc, ch_seen, ch_count>>
    /\ UNCHANGED nonChainVars

NextChain ==
    \/ \E doc \in ChDocs : ChainTake(doc)
    \/ \E verdict \in RrVerdicts : ChainLanguage(verdict)
    \/ ChainTokens
    \/ \E verdict \in {"quality", "ok"} : ChainQuality(verdict)
    \/ ChainMask
    \/ ChainSlices
    \/ ChainDedup
    \/ \E contaminated \in BOOLEAN : ChainDecontam(contaminated)
    \/ \E kept \in BOOLEAN : ChainEmit(kept)

\* ========================================================================
\* Pipeline and operator configuration
\* (pipeline/builder.py, operators/lang_filter.py, operators/url_filter.py)
\* ========================================================================
MaxBlocks == 2
MaxConfigDocs == 2

\* PipelineBuilder.BLOCK_TYPES, lines 15-21, the types the model uses
BLOCK_TYPES ==
    [type \in {"filter", "mapper"} |->
        IF type = "filter" THEN {"language", "url", "quality", "length"}
        ELSE {"extract_text", "token_count", "pii_mask"}]

\* a block dict; "absent" stands for a key the dict does not have
CfBlocks ==
    [type : {"filter", "mapper", "invalid", "absent"},
     name : {"language", "pii_mask", "invalid_filter", "absent"}]
CfConfigs ==
    [has_pipeline : BOOLEAN, blocks : UNION {[1..n -> CfBlocks] : n \in 0..MaxBlocks}]
CfEnvs == [fasttext : BOOLEAN, model_file : BOOLEAN, reachable : BOOLEAN,
           blocklist_file : BOOLEAN]

NoError == [raised |-> FALSE, at |-> "none", what |-> "none"]

\* mutant: the block name is not validated
ValidateBlock_anyname(block) ==
    IF block.type = "absent" THEN "missing type"
    ELSE IF block.name = "absent" THEN "missing name"
    ELSE IF block.type \notin DOMAIN BLOCK_TYPES THEN "unknown block type"
    ELSE "ok"

\* _validate_config, lines 46-63: one block
ValidateBlock(block) ==
    IF block.type = "absent" THEN "missing type"
    ELSE IF block.name = "absent" THEN "missing name"
    ELSE IF block.type \notin DOMAIN BLOCK_TYPES THEN "unknown block type"
    ELSE IF block.name \notin BLOCK_TYPES[block.type] THEN "unknown block name"
    ELSE "ok"

\* _validate_config: the first ValueError raised, "ok" when none
RECURSIVE ValidateBlocks(_)
ValidateBlocks(blocks) ==
    IF blocks = <<>> THEN "ok"
    ELSE IF ValidateBlock(Head(blocks)) # "ok" THEN ValidateBlock(Head(blocks))
    ELSE ValidateBlocks(Tail(blocks))

ValidateConfig(config) ==
    IF ~config.has_pipeline THEN "no pipeline key" ELSE ValidateBlocks(config.blocks)

\* LanguageFilter._load_model, lines 22-45: the exception raised, "ok" when
\* the model is loaded
LoadModel(env) ==
    IF ~env.fasttext THEN "ImportError"
    ELSE IF env.model_file THEN "ok"
    ELSE IF env.reachable THEN "ok"
    ELSE "URLError"

OffConfig ==
    /\ cf_config = [has_pipeline |-> TRUE, blocks |-> <<>>]
    /\ cf_env = [fasttext |-> TRUE, model_file |-> TRUE, reachable |-> TRUE,
                 blocklist_file |-> TRUE]
    /\ cf_pc = "start"
    /\ cf_error = NoError
    /\ cf_model = FALSE
    /\ cf_blocklist = FALSE
    /\ cf_docs = 0

InitConfig ==
    /\ cf_config \in CfConfigs
    /\ cf_env \in CfEnvs
    /\ cf_pc = "start"
    /\ cf_error = NoError
    /\ cf_model = FALSE
    /\ cf_blocklist = FALSE
    /\ cf_docs = 0

\* PipelineBuilder.from_dict
FromDict ==
    /\ cf_pc = "start"
    /\ LET v == ValidateConfig(cf_config)
       IN IF v = "ok"
          THEN /\ cf_pc' = "validated"
               /\ UNCHANGED cf_error
          ELSE /\ cf_pc' = "error"
               /\ cf_error' = [raised |-> TRUE, at |-> "construction", what |-> v]
    /\ UNCHANGED <<cf_config, cf_env, cf_model, cf_blocklist, cf_docs>>
    /\ UNCHANGED nonConfigVars

\* PipelineBuilder.build: placeholder filters and mappers, nothing is loaded
Build ==
    /\ cf_pc = "validated"
    /\ cf_pc' = "built"
    /\ UNCHANGED <<cf_config, cf_env, cf_error, cf_model, cf_blocklist, cf_docs>>
    /\ UNCHANGED nonConfigVars

\* LanguageFilter.__init__ and URLFilter.__init__: the model is not touched,
\* a blocklist file that does not exist is skipped
ConstructOperators ==
    /\ cf_pc = "built"
    /\ cf_pc' = "ready"
    /\ cf_model' = FALSE
    /\ cf_blocklist' = cf_env.blocklist_file
    /\ UNCHANGED <<cf_config, cf_env, cf_error, cf_docs>>
    /\ UNCHANGED nonConfigVars

\* LanguageFilter.__call__ and URLFilter.__call__ on the next document
StreamDocument ==
    /\ cf_pc \in {"ready", "streaming"}
    /\ cf_docs < MaxConfigDocs
    /\ cf_docs' = cf_docs + 1
    /\ LET v == IF cf_model THEN "ok" ELSE LoadModel(cf_env)
       IN IF v = "ok"
          THEN /\ cf_model' = TRUE
               /\ cf_pc' = "streaming"
               /\ UNCHANGED cf_error
          ELSE /\ cf_pc' = "error"
               /\ cf_error' = [raised |-> TRUE, at |-> "streaming", what |-> v]
               /\ UNCHANGED cf_model
    /\ UNCHANGED <<cf_config, cf_env, cf_blocklist>>
    /\ UNCHANGED nonConfigVars

NextConfig ==
    \/ FromDict
    \/ Build
    \/ ConstructOperators
    \/ StreamDocument

\* ========================================================================
\* SliceSampler.sample_stream (mixing/sampler.py 117-130)
\* ========================================================================
MaxStreamDocs == 3
MaxTarget == 3

OffStream ==
    /\ ss_caps = EmptyMap
    /\ ss_target = 1
    /\ ss_tokens = [t \in SpTags |-> 0]
    /\ ss_total = 0
    /\ ss_pc = "loop"
    /\ ss_in = <<>>

\* a fresh sampler and the call sample_stream(docs, target_tokens)
InitStream ==
    /\ ss_caps \in SpCapMaps
    /\ ss_target \in 1..MaxTarget
    /\ ss_tokens = [t \in SpTags |-> 0]
    /\ ss_total = 0
    /\ ss_pc = "loop"
    /\ ss_in = <<>>

\* lines 121-127: the for loop takes the next input document; a rejected
\* document is skipped, an admitted one is counted and yielded
StreamRead(tags, token_count) ==
    /\ ss_pc = "loop"
    /\ Len(ss_in) < MaxStreamDocs
    /\ LET admitted == ~AnyCapped(ss_caps, ss_tokens, tags)
       IN /\ ss_in' = Append(ss_in, [slice_tags |-> tags, token_count |-> token_count,
                                     yielded |-> admitted])
          /\ ss_tokens' = IF admitted THEN TokensAfter(ss_tokens, tags, token_count)
                          ELSE ss_tokens
          /\ ss_total' = IF admitted THEN ss_total + token_count ELSE ss_total
          /\ ss_pc' = IF admitted THEN "yielded" ELSE "loop"
    /\ UNCHANGED <<ss_caps, ss_target>>
    /\ UNCHANGED nonStreamVars

\* lines 129-130: the consumer asks for the next document; the generator
\* resumes after the yield and breaks when the target is reached
StreamResume ==
    /\ ss_pc = "yielded"
    /\ ss_pc' = IF ss_total >= ss_target THEN "done" ELSE "loop"
    /\ UNCHANGED <<ss_caps, ss_target, ss_tokens, ss_total, ss_in>>
    /\ UNCHANGED nonStreamVars

\* the input iterator is exhausted
StreamInputEnd ==
    /\ ss_pc = "loop"
    /\ ss_pc' = "done"
    /\ UNCHANGED <<ss_caps, ss_target, ss_tokens, ss_total, ss_in>>
    /\ UNCHANGED nonStreamVars

NextStream ==
    \/ \E tags \in SpTagLists, n \in 0..MaxDocTokens : StreamRead(tags, n)
    \/ StreamResume
    \/ StreamInputEnd

\* ========================================================================
\* Order of the written documents
\* (pipeline/datatrove_adapter.py, pipeline/executors/local.py, policy/execute.py)
\* ========================================================================
MaxTaskDocs == 2
MaxPipelineLen == 2

OdTasks == 0..(NumShards - 1)
OdBlocks == {"keep_a", "drop_first", "to_a"}
OdPipelines == UNION {[1..n -> OdBlocks] : n \in 0..MaxPipelineLen}
\* the orders in which a shard can hold some of its documents
OdShapes ==
    {s \in UNION {[1..n -> 1..MaxTaskDocs] : n \in 0..MaxTaskDocs} :
        \A i, j \in 1..Len(s) : s[i] = s[j] => i = j}
\* the document k of shard t
OdDoc(t, k) == [id |-> <<t, k>>, text |-> IF k = 1 THEN "a" ELSE "b"]

\* add_filter, lines 56-59: filter_block over a predicate
FilterBlock(name, docs) ==
    SelectSeq(docs, LAMBDA doc : IF name = "keep_a" THEN doc.text = "a"
                                 ELSE doc.id[2] # 1)

\* add_mapper, lines 67-69: mapper_block
MapperBlock(name, docs) == [i \in 1..Len(docs) |-> [docs[i] EXCEPT !.text = "a"]]

\* mutant: a block that yields its documents last first
ApplyBlock_reversed(name, docs) ==
    LET out == IF name = "to_a" THEN MapperBlock(name, docs) ELSE FilterBlock(name, docs)
    IN [i \in 1..Len(out) |-> out[Len(out) + 1 - i]]

\* run, line 94: current = block(current)
ApplyBlock(name, docs) ==
    IF name = "to_a" THEN MapperBlock(name, docs) ELSE FilterBlock(name, docs)

\* DataTroveAdapter.run, lines 84-96: the blocks chained in order
RECURSIVE AdapterRun(_, _)
AdapterRun(blocks, docs) ==
    IF blocks = <<>> THEN docs
    ELSE AdapterRun(Tail(blocks), ApplyBlock(Head(blocks), docs))

\* mutant: every task reads the first shard
TaskInput_first(shards, t) == shards[0]

\* input_shards[task_id]()
TaskInput(shards, t) == shards[t]

OffOrder ==
    /\ od_pipeline = <<>>
    /\ od_shards = [t \in OdTasks |-> <<>>]
    /\ od_files = [t \in OdTasks |-> NoShardFile]
    /\ od_pos = 0
    /\ od_buffer = <<>>
    /\ od_written = <<>>
    /\ od_pc = "loop"

InitOrder ==
    /\ od_pipeline \in OdPipelines
    /\ \E shape \in OdShapes :
          od_shards = [t \in OdTasks |-> [i \in 1..Len(shape) |-> OdDoc(t, shape[i])]]
    /\ od_files = [t \in OdTasks |-> NoShardFile]
    /\ od_pos = 0
    /\ od_buffer = <<>>
    /\ od_written = <<>>
    /\ od_pc = "loop"

\* LocalExecutor._run_task and lines 121-122 of _execute_sequential, with
\* _write_output
OrderRunTask(t) ==
    /\ ~od_files[t].exists
    /\ od_files' = [od_files EXCEPT ![t] =
          [exists |-> TRUE, lines |-> AdapterRun(od_pipeline, TaskInput(od_shards, t))]]
    /\ UNCHANGED <<od_pipeline, od_shards, od_pos, od_buffer, od_written, od_pc>>
    /\ UNCHANGED nonOrderVars

\* execute_policy, lines 101-154, on the documents of shard 0 as input_docs:
\* a document is left out (continue) or appended to shard_docs, which is
\* written when it holds shard_size documents
OrderPolicyStep(kept) ==
    /\ od_pc = "loop"
    /\ od_pos < Len(od_shards[0])
    /\ od_pos' = od_pos + 1
    /\ LET buffer == IF kept THEN Append(od_buffer, od_shards[0][od_pos + 1])
                     ELSE od_buffer
           full == kept /\ Len(buffer) >= shard_size
       IN /\ od_buffer' = IF full THEN <<>> ELSE buffer
          /\ od_written' = IF full THEN FilesAfterWrite(od_written, buffer) ELSE od_written
    /\ UNCHANGED <<od_pipeline, od_shards, od_files, od_pc>>
    /\ UNCHANGED nonOrderVars

\* execute_policy, lines 139-140 and 156-159: the loop ends (input exhausted
\* or budget break) and the last shard is written
OrderPolicyFinish ==
    /\ od_pc = "loop"
    /\ od_pc' = "done"
    /\ od_written' = FilesAfterWrite(od_written, od_buffer)
    /\ od_buffer' = <<>>
    /\ UNCHANGED <<od_pipeline, od_shards, od_files, od_pos>>
    /\ UNCHANGED nonOrderVars

NextOrder ==
    \/ \E t \in OdTasks : OrderRunTask(t)
    \/ \E kept \in BOOLEAN : OrderPolicyStep(kept)
    \/ OrderPolicyFinish

\* ========================================================================
\* Document totals of execute_policy (policy/execute.py, slices/stats.py)
\* ========================================================================
MaxTotalsDocs == 3

\* what the loop does with a document
TtOutcomes == {"filter", "dedup", "budget", "cap", "kept"}
\* the drop flag the metadata of an input document already carries
TtMarks == {"none", "dedup_dropped", "contamination_dropped"}

OffTotals ==
    /\ tt_in = <<>>
    /\ tt_total = SliceStats
    /\ tt_buffer = <<>>
    /\ tt_shards = <<>>
    /\ tt_files = <<>>
    /\ tt_manifest = NoManifest
    /\ tt_pc = "loop"

InitTotals == OffTotals

\* execute_policy, lines 101-154, for one input document; add_document reads
\* the drop reasons from the document's metadata (stats.py:63-64)
TotalsStep(outcome, marked) ==
    /\ tt_pc = "loop"
    /\ Len(tt_in) < MaxTotalsDocs
    /\ tt_in' = Append(tt_in, [outcome |-> outcome, marked |-> marked])
    /\ LET id == Len(tt_in) + 1
           dedup_flag == marked = "dedup_dropped"
           decontam_flag == marked = "contamination_dropped"
           buffer == Append(tt_buffer, [id |-> id])
           full == Len(buffer) >= shard_size
       IN IF outcome = "dedup"
          THEN \* lines 124-126: process has set dedup_dropped
               /\ tt_total' = StatsBump(tt_total, 1, FALSE, TRUE, decontam_flag)
               /\ UNCHANGED <<tt_buffer, tt_shards, tt_files, tt_pc>>
          ELSE IF outcome = "budget"
          THEN /\ tt_pc' = "finish"
               /\ UNCHANGED <<tt_total, tt_buffer, tt_shards, tt_files>>
          ELSE IF outcome = "kept"
          THEN \* lines 147-154
               /\ tt_total' = StatsBump(tt_total, 1, TRUE, dedup_flag, decontam_flag)
               /\ tt_buffer' = IF full THEN <<>> ELSE buffer
               /\ tt_shards' = IF full THEN ShardsAfterWrite(tt_shards, buffer)
                               ELSE tt_shards
               /\ tt_files' = IF full THEN FilesAfterWrite(tt_files, buffer) ELSE tt_files
               /\ UNCHANGED tt_pc
          ELSE \* a filter or the slice cap: continue
               UNCHANGED <<tt_total, tt_buffer, tt_shards, tt_files, tt_pc>>
    /\ UNCHANGED tt_manifest
    /\ UNCHANGED nonTotalsVars

\* the input iterator is exhausted
TotalsInputEnd ==
    /\ tt_pc = "loop"
    /\ tt_pc' = "finish"
    /\ UNCHANGED <<tt_in, tt_total, tt_buffer, tt_shards, tt_files, tt_manifest>>
    /\ UNCHANGED nonTotalsVars

\* execute_policy, lines 156-178: last shard and manifest
TotalsFinish ==
    /\ tt_pc = "finish"
    /\ tt_pc' = "done"
    /\ tt_shards' = ShardsAfterWrite(tt_shards, tt_buffer)
    /\ tt_files' = FilesAfterWrite(tt_files, tt_buffer)
    /\ tt_buffer' = <<>>
    /\ tt_manifest' = [written |-> TRUE, shards |-> tt_shards',
                       total_docs |-> tt_total.doc_count,
                       total_tokens |-> tt_total.token_count]
    /\ UNCHANGED <<tt_in, tt_total>>
    /\ UNCHANGED nonTotalsVars

NextTotals ==
    \/ \E outcome \in TtOutcomes, marked \in TtMarks : TotalsStep(outcome, marked)
    \/ TotalsInputEnd
    \/ TotalsFinish

\* ========================================================================
\* Specifications
\* ========================================================================
Init == InitExec /\ OffDedup /\ OffDecontam /\ OffSampler /\ OffPolicy /\
    OffStore /\ OffStateful /\ OffScoped /\ OffMinhash /\ OffStats /\
    OffShutdown /\ OffPolicyHash /\ OffArtifactHash /\ OffRerun /\ OffManifest
    /\ OffChain /\ OffConfig /\ OffStream /\ OffOrder /\ OffTotals

Next == NextExec

Spec == Init /\ [][Next]_vars

InitDedupOnly == OffExec /\ InitDedup /\ OffDecontam /\ OffSampler /\
    OffPolicy /\ OffStore /\ OffStateful /\ OffScoped /\ OffMinhash /\
    OffStats /\ OffShutdown /\ OffPolicyHash /\ OffArtifactHash /\ OffRerun /\
    OffManifest /\ OffChain /\ OffConfig /\ OffStream /\ OffOrder /\ OffTotals

SpecDedup == InitDedupOnly /\ [][NextDedup]_vars

InitDecontamOnly == OffExec /\ OffDedup /\ InitDecontam /\ OffSampler /\
    OffPolicy /\ OffStore /\ OffStateful /\ OffScoped /\ OffMinhash /\
    OffStats /\ OffShutdown /\ OffPolicyHash /\ OffArtifactHash /\ OffRerun /\
    OffManifest /\ OffChain /\ OffConfig /\ OffStream /\ OffOrder /\ OffTotals

SpecDecontam == InitDecontamOnly /\ [][NextDecontam]_vars

InitSamplerOnly == OffExec /\ OffDedup /\ OffDecontam /\ InitSampler /\
    OffPolicy /\ OffStore /\ OffStateful /\ OffScoped /\ OffMinhash /\
    OffStats /\ OffShutdown /\ OffPolicyHash /\ OffArtifactHash /\ OffRerun /\
    OffManifest /\ OffChain /\ OffConfig /\ OffStream /\ OffOrder /\ OffTotals

SpecSampler == InitSamplerOnly /\ [][NextSampler]_vars

InitPolicyOnly == OffExec /\ OffDedup /\ OffDecontam /\ OffSampler /\
    InitPolicy /\ OffStore /\ OffStateful /\ OffScoped /\ OffMinhash /\
    OffStats /\ OffShutdown /\ OffPolicyHash /\ OffArtifactHash /\ OffRerun /\
    OffManifest /\ OffChain /\ OffConfig /\ OffStream /\ OffOrder /\ OffTotals

SpecPolicy == InitPolicyOnly /\ [][NextPolicy]_vars

InitStoreOnly == OffExec /\ OffDedup /\ OffDecontam /\ OffSampler /\ OffPolicy
    /\ InitStore /\ OffStateful /\ OffScoped /\ OffMinhash /\ OffStats /\
    OffShutdown /\ OffPolicyHash /\ OffArtifactHash /\ OffRerun /\ OffManifest
    /\ OffChain /\ OffConfig /\ OffStream /\ OffOrder /\ OffTotals

SpecStore == InitStoreOnly /\ [][NextStore]_vars

InitStatefulOnly == OffExec /\ OffDedup /\ OffDecontam /\ OffSampler /\
    OffPolicy /\ OffStore /\ InitStateful /\ OffScoped /\ OffMinhash /\
    OffStats /\ OffShutdown /\ OffPolicyHash /\ OffArtifactHash /\ OffRerun /\
    OffManifest /\ OffChain /\ OffConfig /\ OffStream /\ OffOrder /\ OffTotals

SpecStateful == InitStatefulOnly /\ [][NextStateful]_vars

InitScopedOnly == OffExec /\ OffDedup /\ OffDecontam /\ OffSampler /\
    OffPolicy /\ OffStore /\ OffStateful /\ InitScoped /\ OffMinhash /\
    OffStats /\ OffShutdown /\ OffPolicyHash /\ OffArtifactHash /\ OffRerun /\
    OffManifest /\ OffChain /\ OffConfig /\ OffStream /\ OffOrder /\ OffTotals

SpecScoped == InitScopedOnly /\ [][NextScoped]_vars

InitMinhashOnly == OffExec /\ OffDedup /\ OffDecontam /\ OffSampler /\
    OffPolicy /\ OffStore /\ OffStateful /\ OffScoped /\ InitMinhash /\
    OffStats /\ OffShutdown /\ OffPolicyHash /\ OffArtifactHash /\ OffRerun /\
    OffManifest /\ OffChain /\ OffConfig /\ OffStream /\ OffOrder /\ OffTotals

SpecMinhash == InitMinhashOnly /\ [][NextMinhash]_vars

InitStatsOnly == OffExec /\ OffDedup /\ OffDecontam /\ OffSampler /\ OffPolicy
    /\ OffStore /\ OffStateful /\ OffScoped /\ OffMinhash /\ InitStats /\
    OffShutdown /\ OffPolicyHash /\ OffArtifactHash /\ OffRerun /\ OffManifest
    /\ OffChain /\ OffConfig /\ OffStream /\ OffOrder /\ OffTotals

SpecStats == InitStatsOnly /\ [][NextStats]_vars

InitShutdownOnly == OffExec /\ OffDedup /\ OffDecontam /\ OffSampler /\
    OffPolicy /\ OffStore /\ OffStateful /\ OffScoped /\ OffMinhash /\
    OffStats /\ InitShutdown /\ OffPolicyHash /\ OffArtifactHash /\ OffRerun
    /\ OffManifest /\ OffChain /\ OffConfig /\ OffStream /\ OffOrder /\
    OffTotals

SpecShutdown == InitShutdownOnly /\ [][NextShutdown]_vars

InitPolicyHashOnly == OffExec /\ OffDedup /\ OffDecontam /\ OffSampler /\
    OffPolicy /\ OffStore /\ OffStateful /\ OffScoped /\ OffMinhash /\
    OffStats /\ OffShutdown /\ InitPolicyHash /\ OffArtifactHash /\ OffRerun
    /\ OffManifest /\ OffChain /\ OffConfig /\ OffStream /\ OffOrder /\
    OffTotals

SpecPolicyHash == InitPolicyHashOnly /\ [][NextPolicyHash]_vars

InitArtifactHashOnly == OffExec /\ OffDedup /\ OffDecontam /\ OffSampler /\
    OffPolicy /\ OffStore /\ OffStateful /\ OffScoped /\ OffMinhash /\
    OffStats /\ OffShutdown /\ OffPolicyHash /\ InitArtifactHash /\ OffRerun
    /\ OffManifest /\ OffChain /\ OffConfig /\ OffStream /\ OffOrder /\
    OffTotals

SpecArtifactHash == InitArtifactHashOnly /\ [][NextArtifactHash]_vars

InitRerunOnly == OffExec /\ OffDedup /\ OffDecontam /\ OffSampler /\ OffPolicy
    /\ OffStore /\ OffStateful /\ OffScoped /\ OffMinhash /\ OffStats /\
    OffShutdown /\ OffPolicyHash /\ OffArtifactHash /\ InitRerun /\
    OffManifest /\ OffChain /\ OffConfig /\ OffStream /\ OffOrder /\ OffTotals

SpecRerun == InitRerunOnly /\ [][NextRerun]_vars

InitManifestOnly == OffExec /\ OffDedup /\ OffDecontam /\ OffSampler /\
    OffPolicy /\ OffStore /\ OffStateful /\ OffScoped /\ OffMinhash /\
    OffStats /\ OffShutdown /\ OffPolicyHash /\ OffArtifactHash /\ OffRerun /\
    InitManifest /\ OffChain /\ OffConfig /\ OffStream /\ OffOrder /\
    OffTotals

SpecManifest == InitManifestOnly /\ [][NextManifest]_vars

InitChainOnly == OffExec /\ OffDedup /\ OffDecontam /\ OffSampler /\ OffPolicy
    /\ OffStore /\ OffStateful /\ OffScoped /\ OffMinhash /\ OffStats /\
    OffShutdown /\ OffPolicyHash /\ OffArtifactHash /\ OffRerun /\ OffManifest
    /\ InitChain /\ OffConfig /\ OffStream /\ OffOrder /\ OffTotals

SpecChain == InitChainOnly /\ [][NextChain]_vars

InitConfigOnly == OffExec /\ OffDedup /\ OffDecontam /\ OffSampler /\
    OffPolicy /\ OffStore /\ OffStateful /\ OffScoped /\ OffMinhash /\
    OffStats /\ OffShutdown /\ OffPolicyHash /\ OffArtifactHash /\ OffRerun /\
    OffManifest /\ OffChain /\ InitConfig /\ OffStream /\ OffOrder /\
    OffTotals

SpecConfig == InitConfigOnly /\ [][NextConfig]_vars

InitStreamOnly == OffExec /\ OffDedup /\ OffDecontam /\ OffSampler /\
    OffPolicy /\ OffStore /\ OffStateful /\ OffScoped /\ OffMinhash /\
    OffStats /\ OffShutdown /\ OffPolicyHash /\ OffArtifactHash /\ OffRerun /\
    OffManifest /\ OffChain /\ OffConfig /\ InitStream /\ OffOrder /\
    OffTotals

SpecStream == InitStreamOnly /\ [][NextStream]_vars

InitOrderOnly == OffExec /\ OffDedup /\ OffDecontam /\ OffSampler /\ OffPolicy
    /\ OffStore /\ OffStateful /\ OffScoped /\ OffMinhash /\ OffStats /\
    OffShutdown /\ OffPolicyHash /\ OffArtifactHash /\ OffRerun /\ OffManifest
    /\ OffChain /\ OffConfig /\ OffStream /\ InitOrder /\ OffTotals

SpecOrder == InitOrderOnly /\ [][NextOrder]_vars

InitTotalsOnly == OffExec /\ OffDedup /\ OffDecontam /\ OffSampler /\
    OffPolicy /\ OffStore /\ OffStateful /\ OffScoped /\ OffMinhash /\
    OffStats /\ OffShutdown /\ OffPolicyHash /\ OffArtifactHash /\ OffRerun /\
    OffManifest /\ OffChain /\ OffConfig /\ OffStream /\ OffOrder /\
    InitTotals

SpecTotals == InitTotalsOnly /\ [][NextTotals]_vars

\* ========================================================================
\* Properties of the executor
\* ========================================================================
\* the status a reader of the run sees for a task: completed in the running
\* call's state or in the state file
Completed(t) ==
    \/ mem.kind = "state" /\ mem.tasks[t].status = "completed"
    \/ disk.kind = "complete" /\ disk.tasks[t].status = "completed"

CompleteShardFile(t) == [exists |-> TRUE, lines |-> TaskOutput(t)]

\* C1: an execute call that returns, in a history in which no shard task
\* raised (so also the call that follows a kill, with the same run_id),
\* leaves every task completed with the shard file of an uninterrupted run.
C1_ResumeCompletesAll ==
    (pc = "returned" /\ ~raised) =>
        \A t \in Tasks : /\ mem.tasks[t].status = "completed"
                         /\ files[t] = CompleteShardFile(t)

AllowedTransition(a, b) ==
    \/ a = b
    \/ <<a, b>> \in {<<"pending", "running">>, <<"running", "completed">>,
                     <<"running", "failed">>, <<"failed", "running">>}

C2Step(t) ==
    /\ (mem.kind = "state" /\ mem'.kind = "state" /\ mem.run_id = mem'.run_id)
          => AllowedTransition(mem.tasks[t].status, mem'.tasks[t].status)
    /\ (lastDisk.kind = "complete" /\ lastDisk.run_id = lastDisk'.run_id)
          => AllowedTransition(lastDisk.tasks[t].status, lastDisk'.tasks[t].status)
    /\ (mem.kind = "none" /\ mem'.kind = "state" /\ lastDisk.kind = "complete"
           /\ lastDisk.run_id = mem'.run_id)
          => AllowedTransition(lastDisk.tasks[t].status, mem'.tasks[t].status)
    /\ ((mem.kind = "state" /\ mem.tasks[t].status = "completed")
           \/ (lastDisk.kind = "complete" /\ lastDisk.tasks[t].status = "completed"))
          => runs'[t] = runs[t]

\* C2: for a fixed run_id a task's status, in the running call's state and in
\* the successive contents of the state file, changes only by
\* pending->running, running->completed, running->failed or failed->running,
\* and a completed task is never run again.
C2_StatusTransitions == [][\A t \in Tasks : C2Step(t)]_execVars

\* C2 witness: over two execute calls a task failed, was run again and is
\* completed in the state file.
C2_Witness ==
    \E t \in Tasks : /\ calls >= 2
                     /\ runs[t] >= 2
                     /\ disk.kind = "complete"
                     /\ disk.tasks[t].status = "completed"
                     /\ disk.tasks[t].error = ErrStr

\* C3: a task that raised is failed with the error string, in the state and
\* (once the save that follows has finished) in the state file; when the call
\* returns every task of its pending list was run; and a task that is failed
\* when a call returns raised in that very call, so a task found failed at
\* the start of a call is run again.
C3_FailedTaskHandling ==
    \A t \in Tasks :
        /\ worker[t] = "err" =>
              /\ mem.tasks[t].status = "failed"
              /\ mem.tasks[t].error = ErrStr
              /\ pc \notin {"save_open", "save_write"} =>
                    /\ disk.kind = "complete"
                    /\ disk.tasks[t].status = "failed"
                    /\ disk.tasks[t].error = ErrStr
        /\ (pc = "returned" /\ t \in Range(pending)) => worker[t] \in {"ok", "err"}
        /\ (pc = "returned" /\ mem.tasks[t].status \in {"pending", "failed"})
              => worker[t] = "err"

\* C3 witness: a call returned in which a task that had failed in an earlier
\* call was run again and raised, and a later task of the same call was
\* still run and completed.
C3_Witness ==
    /\ pc = "returned"
    /\ \E i, j \in 1..Len(pending) :
          /\ i < j
          /\ worker[pending[i]] = "err"
          /\ runs[pending[i]] >= 2
          /\ worker[pending[j]] = "ok"

\* C9: at every instant execution_state.json, when present, holds a complete
\* state, and no execute call fails to load it.
C9_StateFileAlwaysComplete ==
    /\ disk.kind # "partial"
    /\ pc # "load_error"

\* C10: a shard file that is present holds the complete output of a task
\* whose status is completed, and every completed task has its shard file.
C10_NoPartialShards ==
    \A t \in Tasks :
        /\ files[t].exists => (files[t] = CompleteShardFile(t) /\ Completed(t))
        /\ Completed(t) => files[t].exists

\* ========================================================================
\* Properties of exact deduplication
\* ========================================================================
\* the claim's normal form, stated on words: lowercase, then split at
\* whitespace (equal word lists = equal lowercased, collapsed, trimmed text)
RECURSIVE SplitWords(_, _)
SplitWords(s, cur) ==
    IF s = <<>> THEN (IF cur = <<>> THEN <<>> ELSE <<cur>>)
    ELSE IF Head(s) = " "
         THEN (IF cur = <<>> THEN <<>> ELSE <<cur>>) \o SplitWords(Tail(s), <<>>)
         ELSE SplitWords(Tail(s), Append(cur, Head(s)))

SameNormalForm(a, b) == SplitWords(LowerText(a), <<>>) = SplitWords(LowerText(b), <<>>)

\* C4: with normalization on, a document is emitted iff no earlier document
\* of the stream has the same normal form; every other document is marked
\* dedup_dropped; no two emitted documents share a content hash.
C4_ExactDedupFirstOnly ==
    dd_normalize =>
        /\ \A i \in 1..Len(dd_docs) :
              /\ (i \in Range(dd_out)) <=>
                    ~\E j \in 1..(i - 1) : SameNormalForm(dd_docs[j].text, dd_docs[i].text)
              /\ dd_docs[i].dedup_dropped <=> (i \notin Range(dd_out))
        /\ \A i, j \in Range(dd_out) :
              dd_docs[i].content_hash = dd_docs[j].content_hash => i = j

\* C4 witness: two documents whose raw texts differ in case and in whitespace
\* runs but have the same normal form; the second one was dropped.
C4_Witness ==
    /\ dd_normalize
    /\ Len(dd_docs) >= 2
    /\ dd_docs[1].text = <<"A", " ", "a">>
    /\ dd_docs[2].text = <<"a", " ", " ", "A">>
    /\ dd_docs[2].dedup_dropped
    /\ dd_out = <<1>>

\* ========================================================================
\* Properties of decontamination
\* ========================================================================
\* the number of n-gram positions of a text whose hash is in the index
TrueMatched(text, index) ==
    LET ngrams == ExtractNgrams(text)
    IN Cardinality({i \in 1..Len(ngrams) : HashNgram(ngrams[i]) \in index})

\* overlap_score >= threshold, for matched / total with 0 when total = 0
OverlapAtLeast(matched, total, th) ==
    IF total = 0 THEN th[1] <= 0 ELSE matched * th[2] >= th[1] * total

\* C5: in mode drop no emitted document has, against the index it was
\* checked with, an overlap score (matching n-gram positions over all n-gram
\* positions) at or above the threshold.
C5_DropContainment ==
    dc_mode = "drop" =>
        \A k \in 1..Len(dc_out) :
            LET d == dc_docs[dc_out[k].id]
            IN ~OverlapAtLeast(TrueMatched(d.text, d.index),
                               Len(ExtractNgrams(d.text)), dc_threshold)

\* the documents process returned for input document id
Returned(id) == {k \in 1..Len(dc_out) : dc_out[k].id = id}

\* pat occurs in ws as a run of consecutive words
Occurs(pat, ws) ==
    \E k \in 1..(Len(ws) - Len(pat) + 1) : SubSeq(ws, k, k + Len(pat) - 1) = pat

C24_OverlapScoreByPosition ==
    \A i \in 1..Len(dc_docs) :
        LET d == dc_docs[i]
            total == Len(ExtractNgrams(d.text))
        IN /\ d.result.total = total
           /\ d.result.matched = TrueMatched(d.text, d.index)
           /\ d.result.is_contaminated <=>
                 OverlapAtLeast(TrueMatched(d.text, d.index), total, dc_threshold)

\* in every mode a document checked against an empty index is returned
\* as it came: not contaminated, no flags, weight and text unchanged
C29_EmptyIndexNoAction ==
    \A i \in 1..Len(dc_docs) :
        dc_docs[i].index = {} =>
            /\ ~dc_docs[i].result.is_contaminated
            /\ Cardinality(Returned(i)) = 1
            /\ \A k \in Returned(i) :
                  /\ dc_out[k].text = dc_docs[i].text
                  /\ dc_out[k].contamination_flags = NoFlags
                  /\ dc_out[k].sample_weight = <<1, 1>>

\* ========================================================================
\* Properties of the slice sampler
\* ========================================================================
RECURSIVE SumTokens(_)
SumTokens(docs) ==
    IF docs = <<>> THEN 0 ELSE Head(docs).token_count + SumTokens(Tail(docs))

RECURSIVE SelectDocs(_, _)
SelectDocs(docs, ids) ==
    IF docs = <<>> THEN <<>>
    ELSE IF Head(docs).id \in ids THEN <<Head(docs)>> \o SelectDocs(Tail(docs), ids)
    ELSE SelectDocs(Tail(docs), ids)

\* the admitted documents that carry tag t
AdmittedWith(t) ==
    SelectDocs(sp_in, {sp_in[i].id : i \in {k \in 1..Len(sp_in) :
                          sp_in[k].admitted /\ t \in Range(sp_in[k].slice_tags)}})

\* C6: for every tag with a configured cap the token counts of the admitted
\* documents carrying the tag sum to at most the cap.
C6_SliceCapRespected ==
    \A t \in DOMAIN sp_caps : SumTokens(AdmittedWith(t)) <= sp_caps[t]

\* C12, one add_document call: the document is rejected iff one of its tags
\* has a cap that its counter has reached; a rejected document changes no
\* counter and no bucket; an admitted one is appended to the bucket of each
\* of its tags and adds its token_count to each of those counters, and to no
\* other.
C12Step ==
    Len(sp_in') = Len(sp_in) + 1 =>
        LET d == sp_in'[Len(sp_in')]
            atCap == \E t \in Range(d.slice_tags) \cap DOMAIN sp_caps :
                         sp_tokens[t] >= sp_caps[t]
        IN /\ d.admitted <=> ~atCap
           /\ ~d.admitted => (sp_tokens' = sp_tokens /\ sp_docs' = sp_docs)
           /\ d.admitted =>
                 \A t \in SpTags :
                     IF t \in Range(d.slice_tags)
                     THEN /\ sp_tokens'[t] = sp_tokens[t] + d.token_count
                          /\ sp_docs'[t] = Append(sp_docs[t], d.id)
                     ELSE /\ sp_tokens'[t] = sp_tokens[t]
                          /\ sp_docs'[t] = sp_docs[t]

C12_AdmissionRule == [][C12Step]_samplerVars

\* C12 witness: a document with two tags was admitted into both buckets and a
\* later document was rejected because one of its two tags was at its cap.
C12_Witness ==
    /\ Len(sp_in) >= 2
    /\ sp_in[1].admitted /\ sp_in[1].slice_tags = <<"news", "wiki">>
    /\ sp_docs["news"] = <<1>> /\ sp_docs["wiki"] = <<1>>
    /\ ~sp_in[2].admitted /\ sp_in[2].slice_tags = <<"news", "wiki">>
    /\ "news" \in DOMAIN sp_caps /\ "wiki" \notin DOMAIN sp_caps

\* ========================================================================
\* Properties of the policy execution loop
\* ========================================================================
RECURSIVE Flatten(_)
Flatten(seqs) == IF seqs = <<>> THEN <<>> ELSE Head(seqs) \o Flatten(Tail(seqs))

\* the documents in the shard files written so far
WrittenDocs == Flatten(pl_files)

\* C7: at every point of execute_policy the token counts of the documents
\* written to the output shards, together with those buffered for the next
\* shard, sum to at most policy.max_tokens.
C7_TokenBudgetRespected ==
    SumTokens(WrittenDocs) + SumTokens(pl_buffer) <= pl_policy.max_tokens

\* C7 witness: a finished run that wrote at least two documents filling the
\* budget exactly and stopped on a document that would have exceeded it.
C7_Witness ==
    /\ pl_pc = "done"
    /\ \E i \in 1..Len(pl_in) : pl_in[i].outcome = "budget"
    /\ Len(WrittenDocs) >= 2
    /\ SumTokens(WrittenDocs) = pl_policy.max_tokens

\* the last consumed document broke the loop on the token budget
BudgetBreak == pl_in # <<>> /\ pl_in[Len(pl_in)].outcome = "budget"

\* the ids of the documents whose outcome was "kept", in input order
KeptIds == FilterSeq([i \in 1..Len(pl_in) |-> pl_in[i].id],
                     {i \in 1..Len(pl_in) : pl_in[i].outcome = "kept"})

IdsOf(docs) == [i \in 1..Len(docs) |-> docs[i].id]

C25Step ==
    /\ BudgetBreak =>
          /\ pl_in' = pl_in
          /\ IdsOf(Flatten(pl_files') \o pl_buffer') = IdsOf(WrittenDocs \o pl_buffer)
    /\ (~BudgetBreak /\ BudgetBreak') =>
          /\ pl_pc' = "finish"
          /\ pl_files' = pl_files
          /\ pl_buffer' = pl_buffer
          /\ pl_total' = pl_total

\* the run ended normally: last shard flushed, manifest written, every kept
\* document in a shard file
EndedNormally ==
    /\ pl_pc = "done"
    /\ pl_manifest.written
    /\ pl_buffer = <<>>
    /\ IdsOf(WrittenDocs) = KeptIds
    /\ Len(pl_manifest.shards) = Len(pl_files)

\* C25: the document that would raise the kept-token total above max_tokens
\* stops the loop at once: it is not emitted, no input document is consumed
\* or emitted after it, and the only step left is the normal end of the
\* run, which can always be taken and leaves the last shard flushed and the
\* manifest written.
C25_BudgetBreakStopsLoop ==
    /\ [][C25Step]_policyVars
    /\ [](BudgetBreak => pl_pc \in {"finish", "done"})
    /\ [](pl_pc = "done" => EndedNormally)
    /\ []((BudgetBreak /\ pl_pc = "finish") => ENABLED PolicyFinish)

\* C25 witness: a run ended on a budget break after one kept document, with
\* room left in the budget for a one-token document and input capacity
\* left, and the kept document is in a flushed last shard.
C25_Witness ==
    /\ BudgetBreak
    /\ pl_pc = "done"
    /\ Len(pl_in) = 2
    /\ pl_in[1].outcome = "kept"
    /\ pl_total + 1 <= pl_policy.max_tokens
    /\ Len(WrittenDocs) = 1
    /\ pl_manifest.written

\* C29: the index of the decontaminator execute_policy builds stays empty,
\* so whatever the policy says about decontamination no document of any run
\* is found contaminated: none is dropped (or otherwise acted on) by the
\* decontam step and no slice counts a decontam drop.
C29_DecontamNeverActs ==
    /\ \A i \in 1..Len(pl_in) : pl_in[i].outcome # "decontam"
    /\ pl_stats.total.decontam_dropped = 0
    /\ \A t \in PlTags : pl_stats.by_slice[t].decontam_dropped = 0

\* C29 witness: with decontam enabled a document whose text has an n-gram
\* went through the decontam step and was written.
C29_Witness ==
    /\ pl_policy.decontam_enabled
    /\ pl_pc = "done"
    /\ \E i \in 1..Len(WrittenDocs) :
          /\ ExtractNgrams(WrittenDocs[i].text) # <<>>
          /\ pl_in[WrittenDocs[i].id].outcome = "kept"

\* the ids the dedupers hold as first occurrences
RegisteredIds ==
    UNION {{pl_dedupers[k][h] : h \in DOMAIN pl_dedupers[k]} : k \in DOMAIN pl_dedupers}

\* the documents that came out of the dedup step as unique
PassedDedup ==
    {i \in 1..Len(pl_in) : pl_in[i].outcome \in {"decontam", "budget", "cap", "kept"}}

\* a document that passes the filters and whose text its deduper already
\* holds is dropped as a duplicate: no step that lets a document through the
\* dedup step is the step of such a document
C30Step ==
    (/\ Len(pl_in') > Len(pl_in)
     /\ pl_in'[Len(pl_in')].outcome \in {"decontam", "budget", "cap", "kept"})
        => \A text \in PlTexts, dump \in PlDumps :
              HashText(text, TRUE) \in
                  DOMAIN DeduperSeen(pl_dedupers, DeduperKey(pl_policy.scope, dump))
              => \A n \in PlTokenCounts : ~PolicyStep(TRUE, TRUE, text, dump, n)

\* C30: the dedup state holds exactly the documents that came out of the
\* dedup step as unique, whatever the decontam, budget and slice-cap
\* decisions then made of them, and a later document with the text of any of
\* them is dropped as a duplicate, also when that first document is not in
\* the output.
C30_RegisteredBeforeDecisions ==
    /\ [](RegisteredIds = PassedDedup)
    /\ [][C30Step]_policyVars

\* C30 witness: per dump, document 1 (dump d2) was kept and filled the cap
\* of lang=en, document 2 (dump d1) was rejected by the cap, and document 3
\* (dump d1) was dropped as a duplicate of document 2, the only document its
\* deduper holds, which is not in the output.
C30_Witness ==
    /\ pl_policy.scope = "per_dump"
    /\ Len(pl_in) = 3
    /\ pl_in[1].outcome = "kept"
    /\ pl_in[2].outcome = "cap"
    /\ pl_in[3].outcome = "dedup"
    /\ pl_stats.by_slice["dump=d1"].dedup_dropped = 1
    /\ "d1" \in DOMAIN pl_dedupers
    /\ {pl_dedupers["d1"][h] : h \in DOMAIN pl_dedupers["d1"]} = {2}
    /\ pl_pc = "done"
    /\ IdsOf(WrittenDocs) = <<1>>

\* ========================================================================
\* Properties of the artifact store
\* ========================================================================
\* C8: no call of exists returned true while manifest.json held only part of
\* a manifest, and every get_manifest that returned a manifest read a
\* complete file.
C8_ManifestAtomicallyVisible ==
    \A i \in 1..Len(st_obs) :
        /\ (st_obs[i].op = "exists" /\ st_obs[i].result = "True") => ~st_obs[i].partial
        /\ (st_obs[i].op = "get_manifest" /\ st_obs[i].result \in Manifests)
              => ~st_obs[i].partial

\* ========================================================================
\* Properties of the executor under a stateful pipeline
\* ========================================================================
\* C11: once both runs over the same shards have returned, the run with
\* num_workers > 1 has written the same shard files and reached the same
\* task state as the run with num_workers = 1.
C11_ParallelEqualsSequential ==
    (sq_idx = NumShards /\ pr_pc = "returned") =>
        /\ pr_files = sq_files
        /\ pr_tasks = sq_tasks

\* ========================================================================
\* Properties of scoped deduplication
\* ========================================================================
\* the dumps of the documents processed so far, as deduper keys
DumpKeysSeen ==
    {IF sc_docs[i].dump = "none" THEN "unknown" ELSE sc_docs[i].dump :
        i \in 1..Len(sc_docs)}

BandMatches(i) ==
    {j \in 1..(i - 1) :
        \E b \in Bands : mh_docs[j].band_hashes[b] = mh_docs[i].band_hashes[b]}

FirstOf(S) == CHOOSE j \in S : \A k \in S : j <= k

ClusterMembers(c) == {i \in 1..Len(mh_docs) : mh_docs[i].dedup_cluster_id = c}

\* C14: a document that shares a bucket key with a previously seen document
\* joins the cluster of the first such document and is flagged dropped;
\* otherwise it founds the cluster keyed by its own id and is emitted; either
\* way it is in the buckets of all its bands; each cluster has exactly one
\* emitted document, its first member.
C14_FirstWriterWins ==
    \A i \in 1..Len(mh_docs) :
        /\ IF BandMatches(i) = {}
           THEN /\ mh_docs[i].dedup_cluster_id = mh_docs[i].id
                /\ ~mh_docs[i].dedup_dropped
                /\ i \in Range(mh_out)
           ELSE /\ mh_docs[i].dedup_cluster_id =
                       mh_docs[FirstOf(BandMatches(i))].dedup_cluster_id
                /\ mh_docs[i].dedup_dropped
                /\ i \notin Range(mh_out)
        /\ \A b \in Bands : i \in Range(mh_buckets[b][mh_docs[i].band_hashes[b]])
        /\ LET members == ClusterMembers(mh_docs[i].dedup_cluster_id)
           IN members \cap Range(mh_out) = {FirstOf(members)}

\* ========================================================================
\* Properties of the slice statistics
\* ========================================================================
RECURSIVE SumDocCount(_)
SumDocCount(tags) ==
    IF tags = {} THEN 0
    ELSE LET t == CHOOSE x \in tags : TRUE
         IN ss_stats.by_slice[t].doc_count + SumDocCount(tags \ {t})

\* the number of tags of the language family a document carries
LangTagCount(doc) ==
    Cardinality({k \in 1..Len(doc.slice_tags) : doc.slice_tags[k] \in LangTags})

\* C16: when every document passed to add_document carries exactly one tag
\* of the language family, total.doc_count is the sum of doc_count over the
\* tags of that family.
C16_StatsConservation ==
    (\A i \in 1..Len(ss_docs) : LangTagCount(ss_docs[i]) = 1) =>
        ss_stats.total.doc_count = SumDocCount(LangTags)

\* C16 witness: a document of one language was counted, and a document of
\* the other language flagged dedup_dropped was passed as kept and not counted.
C16_Witness ==
    /\ Len(ss_docs) = 2
    /\ \A i \in 1..2 : LangTagCount(ss_docs[i]) = 1
    /\ ss_docs[1].slice_tags = <<"dump=d1", "lang=en">>
    /\ ss_docs[2].slice_tags = <<"lang=de">>
    /\ ss_docs[2].kept /\ ss_docs[2].dedup_dropped
    /\ ss_stats.by_slice["lang=en"].doc_count = 1
    /\ ss_stats.by_slice["lang=de"].doc_count = 0
    /\ ss_stats.total.doc_count = 1

\* ========================================================================
\* Properties of graceful shutdown
\* ========================================================================
\* C17: once the first signal has set the shutdown flag, the pipeline puts no
\* further document into a shard, and a forced exit on the second signal runs
\* no flush callback.
C17_GracefulShutdown ==
    /\ gs_after = 0
    /\ gs_pc = "exited" => gs_exit_runs = 0

\* ========================================================================
\* Properties of policy hashing
\* ========================================================================
\* the mapping a dict denotes, whatever the order of its items
AsMapping(d) == {d[i] : i \in 1..Len(d)}

\* two policies are the same but for the key order of their mappings
SameButKeyOrder(p, q) ==
    /\ p.seed = q.seed
    /\ p.enabled_rules = q.enabled_rules
    /\ AsMapping(p.slice_weights) = AsMapping(q.slice_weights)

\* C18: two policies that differ only in the key order of a mapping have the
\* same hash, and two policies that differ in the value of a field have
\* different hashes.
C18_PolicyHashCanonical ==
    \A i, j \in 1..Len(ph_calls) :
        SameButKeyOrder(ph_calls[i].policy, ph_calls[j].policy)
            <=> ph_calls[i].hash = ph_calls[j].hash

\* C18 witness: slice weights {a: 0.5, b: 0.5} and {b: 0.5, a: 0.5} were
\* hashed and the hashes are equal.
C18_Witness ==
    /\ Len(ph_calls) = 2
    /\ ph_calls[1].policy.slice_weights = <<<<"a", "0.5">>, <<"b", "0.5">>>>
    /\ ph_calls[2].policy.slice_weights = <<<<"b", "0.5">>, <<"a", "0.5">>>>
    /\ ph_calls[1].policy.seed = ph_calls[2].policy.seed
    /\ ph_calls[1].policy.enabled_rules = ph_calls[2].policy.enabled_rules
    /\ ph_calls[1].hash = ph_calls[2].hash

\* ========================================================================
\* Properties of artifact hashing
\* ========================================================================
\* the triple of a call: the policy hash, the code version given (the
\* current one when the argument is None), the input signature
Triple(call) ==
    <<ComputePolicyHash(call.policy),
      IF call.code_version = "none" THEN call.git ELSE call.code_version,
      call.input_signature>>

\* C19: the hash of a call is a function of exactly its triple (policy hash,
\* code version, input signature): two calls of the same function with equal
\* triples return equal hashes whatever the git state at the time of the
\* call, and two calls whose triples differ return different hashes.
C19_ArtifactHashOfTriple ==
    \A i, j \in 1..Len(ah_calls) :
        ah_calls[i].fn = ah_calls[j].fn =>
            (Triple(ah_calls[i]) = Triple(ah_calls[j])
                <=> ah_calls[i].hash = ah_calls[j].hash)

\* ========================================================================
\* Properties of running the policy twice
\* ========================================================================
\* C20: when the second call of execute_policy on the same input and policy
\* has finished, its shard files equal those of the first call line for line
\* and its slice stats equal those of the first call.
C20_RerunIdentical ==
    (rr_run = 2 /\ rr_pc = "done") =>
        /\ rr_ops.files = rr_first.files
        /\ rr_ops.stats = rr_first.stats

\* C20 witness: both calls are done on an input of two documents with the
\* same text; each call wrote one shard with the first document only and
\* counted one dedup drop.
C20_Witness ==
    /\ rr_run = 2
    /\ rr_pc = "done"
    /\ Len(rr_input) = 2
    /\ rr_input[1].text = rr_input[2].text
    /\ Len(rr_ops.files) = 1
    /\ Len(rr_ops.files[1]) = 1
    /\ rr_ops.files[1][1].id = 1
    /\ rr_ops.stats.total.dedup_dropped = 1
    /\ rr_first.stats.total.dedup_dropped = 1

\* ========================================================================
\* Properties of the manifest round trip
\* ========================================================================
\* two dicts are equal when they hold the same items, whatever the order
SameItems(d, e) == {d[i] : i \in 1..Len(d)} = {e[i] : i \in 1..Len(e)}

KeysOf(meta) == {meta[i][1] : i \in 1..Len(meta)}

\* an operator ran on the document: it kept the id and every metadata key
C22Step ==
    (ch_pc # "next" /\ ch_doc' # ch_doc) =>
        /\ ch_doc'.id = ch_doc.id
        /\ KeysOf(ch_doc.metadata) \subseteq KeysOf(ch_doc'.metadata)

\* C22: every emitted document has the id of the input document it came
\* from, and no operator, PII masking and redaction included, changes the
\* id or removes a metadata key the document had before it ran.
C22_IdAndKeysPreserved ==
    /\ [](\A i \in 1..Len(ch_out) :
            /\ ch_out[i].doc.id = ch_out[i].in.id
            /\ KeysOf(ch_out[i].in.metadata) \subseteq KeysOf(ch_out[i].doc.metadata))
    /\ [][C22Step]_chainVars

\* C22 witness: an input document with three metadata keys whose text held
\* an e-mail address was masked, found contaminated, redacted and emitted.
C22_Witness ==
    /\ Len(ch_out) >= 1
    /\ Len(ch_out[1].in.metadata) = 3
    /\ ch_out[1].in.text = <<"@">>
    /\ ch_out[1].doc.text = <<Redacted>>
    /\ DataGet(ch_out[1].doc.metadata, "contamination_flags", "none") = "redacted"
    /\ DataGet(ch_out[1].doc.metadata, "pii_ips_masked", "none") = 0

\* ========================================================================
\* Properties of pipeline and operator configuration
\* ========================================================================
\* the claim's invalid configurations
InvalidBlock(b) ==
    \/ b.type \notin {"filter", "mapper"}
    \/ b.type = "filter" /\ b.name # "language"
    \/ b.type = "mapper" /\ b.name # "pii_mask"

InvalidConfiguration ==
    \/ ~cf_config.has_pipeline
    \/ \E i \in 1..Len(cf_config.blocks) : InvalidBlock(cf_config.blocks[i])
    \/ ~cf_env.model_file
    \/ ~cf_env.blocklist_file

\* C23: an invalid configuration (no pipeline key, a block without type or
\* name, an unknown type or name, a missing model file or blocklist) raises
\* its error during construction: construction never completes on it, and
\* no error is raised while documents are streaming.
C23_ConfigErrorsAtConstruction ==
    /\ cf_pc \in {"ready", "streaming"} => ~InvalidConfiguration
    /\ cf_error.at # "streaming"

\* the builder alone: a configuration passes from_dict iff it is valid
C23_BuilderValidates ==
    /\ cf_pc = "validated" =>
          /\ cf_config.has_pipeline
          /\ \A i \in 1..Len(cf_config.blocks) : ~InvalidBlock(cf_config.blocks[i])
    /\ (cf_pc = "error" /\ cf_error.at = "construction") =>
          \/ ~cf_config.has_pipeline
          \/ \E i \in 1..Len(cf_config.blocks) : InvalidBlock(cf_config.blocks[i])

\* the language model is missing and cannot be fetched: the error is raised
\* by the first document
C23_StreamingError ==
    /\ cf_error.at = "streaming"
    /\ cf_error.what = "URLError"
    /\ ~cf_env.model_file

\* ========================================================================
\* Properties of sample_stream
\* ========================================================================
RECURSIVE YieldedTokens(_)
YieldedTokens(in) ==
    IF in = <<>> THEN 0
    ELSE (IF Head(in).yielded THEN Head(in).token_count ELSE 0) + YieldedTokens(Tail(in))

\* the tokens yielded so far for one slice
RECURSIVE SliceYielded(_, _)
SliceYielded(in, tag) ==
    IF in = <<>> THEN 0
    ELSE (IF Head(in).yielded /\ tag \in Range(Head(in).slice_tags)
          THEN Head(in).token_count ELSE 0) + SliceYielded(Tail(in), tag)

TargetReached == YieldedTokens(ss_in) >= ss_target

\* there are capped slices and each of them has reached its cap
EveryCappedSliceFull ==
    /\ DOMAIN ss_caps # {}
    /\ \A tag \in DOMAIN ss_caps : SliceYielded(ss_in, tag) >= ss_caps[tag]

\* C26: once the yielded tokens have reached target_tokens, or every capped
\* slice has reached its cap, sample_stream reads no further input document.
C26_StreamStopsWhenFull ==
    [][(TargetReached \/ EveryCappedSliceFull) => ss_in' = ss_in]_streamVars

\* the target alone: no input document is read once it is reached
C26_TargetStops == [][TargetReached => ss_in' = ss_in]_streamVars

\* every capped slice was full, the target was not reached, and another
\* input document was read
C26_ReadAfterCaps ==
    \E k \in 1..(Len(ss_in) - 1) :
        LET before == SubSeq(ss_in, 1, k)
        IN /\ YieldedTokens(before) < ss_target
           /\ DOMAIN ss_caps # {}
           /\ \A tag \in DOMAIN ss_caps : SliceYielded(before, tag) >= ss_caps[tag]

\* ========================================================================
\* Properties of the order of the written documents
\* ========================================================================
\* the position of the document with this id in a sequence, 0 when absent
PosOf(id, docs) ==
    IF \E i \in 1..Len(docs) : docs[i].id = id
    THEN CHOOSE i \in 1..Len(docs) : docs[i].id = id
    ELSE 0

\* every document of out comes from in, and out keeps in's relative order
InInputOrder(out, in) ==
    /\ \A i \in 1..Len(out) : PosOf(out[i].id, in) # 0
    /\ \A i, j \in 1..Len(out) : i < j => PosOf(out[i].id, in) < PosOf(out[j].id, in)

\* C27: the documents of every shard file of the executor come from the
\* input shard of the same index and are in its order, and the documents
\* execute_policy has written or buffered are in the order of its input.
C27_InputOrderKept ==
    /\ \A t \in OdTasks :
          od_files[t].exists => InInputOrder(od_files[t].lines, od_shards[t])
    /\ InInputOrder(Flatten(od_written) \o od_buffer, od_shards[0])

\* C27 witness: every task wrote two documents of its own shard, given in
\* the order 2, 1, through a mapper and a filter, and execute_policy wrote a
\* full shard of the two documents of its input in that order.
C27_Witness ==
    /\ od_pipeline = <<"to_a", "keep_a">>
    /\ \A t \in OdTasks :
          /\ od_files[t].exists
          /\ Len(od_files[t].lines) = 2
          /\ od_files[t].lines[1].id = <<t, 2>>
          /\ od_files[t].lines[2].id = <<t, 1>>
    /\ od_pc = "done"
    /\ Len(od_written) = 1
    /\ IdsOf(od_written[1]) = << <<0, 2>>, <<0, 1>> >>

\* ========================================================================
\* Properties of the document totals
\* ========================================================================
RECURSIVE SumShardDocs(_)
SumShardDocs(shards) ==
    IF shards = <<>> THEN 0 ELSE Head(shards).doc_count + SumShardDocs(Tail(shards))

TotalsAgree ==
    /\ tt_manifest.total_docs = Len(Flatten(tt_files))
    /\ Len(Flatten(tt_files)) = SumShardDocs(tt_manifest.shards)
    /\ tt_manifest.total_docs =
          Cardinality({i \in 1..Len(tt_in) : tt_in[i].outcome = "kept"})

\* C28: in the manifest execute_policy writes, stats.total_docs is the
\* number of documents written to the output shards and the sum of doc_count
\* over the shard entries; rejected documents are counted in neither.
C28_TotalDocsIsWritten == tt_manifest.written => TotalsAgree

\* the same for inputs whose metadata carries no drop flag
C28_UnmarkedTotals ==
    (tt_manifest.written /\ \A i \in 1..Len(tt_in) : tt_in[i].marked = "none")
        => TotalsAgree

\* a kept document whose metadata already said dedup_dropped is in a shard
\* and missing from total_docs
C28_MarkedKept ==
    /\ tt_manifest.written
    /\ \E i \in 1..Len(tt_in) : tt_in[i].outcome = "kept" /\ tt_in[i].marked = "dedup_dropped"
    /\ tt_manifest.total_docs < Len(Flatten(tt_files))
    /\ Len(Flatten(tt_files)) = SumShardDocs(tt_manifest.shards)

====
